---------------------------- MODULE Spec2Model ----------------------------
(***************************************************************************)
(* LuminaRay: the voxel sandbox's picking / editing core.                  *)
(*                                                                         *)
(* Numbers.  A JavaScript / GLSL float is modelled as a fixed-point        *)
(* integer counting 1/Unit (1/1200) of a grid unit, plus the two IEEE      *)
(* special values the code can produce, Inf and NaN.  The inputs of the    *)
(* model are chosen so that every product and reciprocal the code forms    *)
(* on them is exact at this resolution (direction components 0, 1/3, 3/5,  *)
(* 2/3, 4/5, 1 and positions that are multiples of 1/20); where it is not, *)
(* the value is rounded down to the unit.  Cell coordinates and voxel ids  *)
(* are plain integers.                                                     *)
(***************************************************************************)
EXTENDS Integers, Sequences, FiniteSets, TLC

VARIABLES
    \* ---- application state (App component, useState) ----
    gridData,          \* Uint8Array(32^3), kept sparse: flat index -> non-zero id
    lights,            \* Light[]
    cameraPos,         \* App state cameraPos, as captured by handleBlockAction
    cameraAngle,       \* App state cameraAngle
    tool,              \* ToolType
    selectedColorIdx,
    isMirrorSelected,
    showSphere,
    qualityMode,
    \* ---- RayTracerCanvas refs and the DOM ----
    cameraPosRef,
    cameraAngleRef,
    pointerLocked,     \* document.pointerLockElement === canvas
    \* ---- bookkeeping of the runs ----
    nClicks,           \* clicks with the Block or Delete tool so far
    nFrames,           \* camera-moving frames so far
    nMouseMoves,       \* mouse-move events so far
    lastClick,         \* what the last click did
    roundTrip,         \* a Block placement awaiting the next click
    \* ---- one call of a pure function, for the claims about them ----
    sphereCall,        \* intersectSphere, CPU and GLSL
    dda,               \* one voxel traversal, iteration by iteration
    scene,             \* one ray against a whole scene: pick resolver and map
    \* ---- the canvas's render pipeline ----
    gfx                \* gl, program, texture, frame loop and FPS counter

appVars == <<gridData, lights, cameraPos, cameraAngle, tool, selectedColorIdx,
             isMirrorSelected, showSphere, qualityMode, cameraPosRef,
             cameraAngleRef, pointerLocked, nClicks, nFrames, nMouseMoves,
             lastClick, roundTrip>>
vars == <<gridData, lights, cameraPos, cameraAngle, tool, selectedColorIdx,
          isMirrorSelected, showSphere, qualityMode, cameraPosRef,
          cameraAngleRef, pointerLocked, nClicks, nFrames, nMouseMoves,
          lastClick, roundTrip, sphereCall, dda, scene, gfx>>

----------------------------------------------------------------------------
(* Program constants *)

GRID_SIZE == 32
PALETTE_SIZE == 16
MIRROR_ID == 100
MaxLights == 10
MAX_DIST == 100                  \* shader: const float MAX_DIST = 100.0

(* Bounds of the model *)

MaxClicks == 2
MaxFrames == 1
MaxMouseMoves == 1
MaxColorIdx == 1
MaxLooks == 3

----------------------------------------------------------------------------
(* Fixed-point floats *)

Unit == 12 * 100
Inf == 2^30
NaN == 0 - 2^30
Null == 0 - 2^29          \* JavaScript null, where a function returns number | null

Abs(a) == IF a < 0 THEN 0 - a ELSE a
IsFinite(a) == a # Inf /\ a # NaN
Num(n, d) == (n * Unit) \div d              \* the literal n/d

\* a < b, a > b, a >= b on floats: false as soon as one side is NaN
FLt(a, b) == a # NaN /\ b # NaN /\ a < b
FGt(a, b) == FLt(b, a)
FGe(a, b) == a # NaN /\ b # NaN /\ a >= b

\* a * b of two finite values (split so that no intermediate exceeds 2^31)
MulU(a, b) == (a \div Unit) * b + ((a % Unit) * b) \div Unit

\* a * b, a + b with IEEE Inf and NaN (a >= 0 wherever the code multiplies by Inf)
FMul(a, b) ==
    IF a = NaN \/ b = NaN THEN NaN
    ELSE IF a = Inf \/ b = Inf THEN (IF a = 0 \/ b = 0 THEN NaN ELSE Inf)
    ELSE MulU(a, b)
FAdd(a, b) ==
    IF a = NaN \/ b = NaN THEN NaN
    ELSE IF a = Inf \/ b = Inf THEN Inf
    ELSE a + b

\* Math.abs(1 / c), and GLSL 1.0 / abs(c): 1/0 is Infinity
AbsRecip(c) == IF c = 0 THEN Inf ELSE (Unit * Unit) \div Abs(c)

\* Math.floor of a finite value: the cell coordinate
Floor(a) == a \div Unit

\* s * s <= v * Unit, decided without forming either product
SqLeq(s, v) ==
    LET q == s \div Unit
        r == s % Unit
    IN q * q * Unit + 2 * q * r + ((r * r + Unit - 1) \div Unit) <= v

RECURSIVE SqrtSearch(_, _, _)
SqrtSearch(v, lo, hi) ==
    IF lo >= hi THEN lo
    ELSE LET mid == (lo + hi + 1) \div 2
         IN IF SqLeq(mid, v) THEN SqrtSearch(v, mid, hi)
            ELSE SqrtSearch(v, lo, mid - 1)

\* Math.sqrt / sqrt of v >= 0, rounded down to the unit
Sqrt(v) == SqrtSearch(v, 0, IF v > Unit THEN v ELSE Unit)

----------------------------------------------------------------------------
(* lib/math: the vector kernel (vectors are <<x, y, z>>) *)

add(a, b) == <<a[1] + b[1], a[2] + b[2], a[3] + b[3]>>
sub(a, b) == <<a[1] - b[1], a[2] - b[2], a[3] - b[3]>>
scale(a, s) == <<MulU(a[1], s), MulU(a[2], s), MulU(a[3], s)>>
dot(a, b) == MulU(a[1], b[1]) + MulU(a[2], b[2]) + MulU(a[3], b[3])
len(a) == Sqrt(dot(a, a))

\* intersectSphere narrowed the way a slip would: the far root forgotten
intersectSphere_NearOnly(ro, rd, center, radius) ==
    LET oc == sub(ro, center)
        b == dot(oc, rd)
        c == dot(oc, oc) - MulU(radius, radius)
        h == MulU(b, b) - c
    IN IF h < 0 THEN Null
       ELSE LET t == (0 - b) - Sqrt(h)
            IN IF t > 0 THEN t ELSE Null

\* Ray-sphere intersection of the CPU side (cursor picking)
intersectSphere(ro, rd, center, radius) ==
    LET oc == sub(ro, center)
        b == dot(oc, rd)
        c == dot(oc, oc) - MulU(radius, radius)
        h == MulU(b, b) - c
    IN IF h < 0 THEN Null
       ELSE LET t == (0 - b) - Sqrt(h)
            IN IF t > 0 THEN t
               ELSE IF (0 - b) + Sqrt(h) > 0 THEN (0 - b) + Sqrt(h)
               ELSE Null

\* Ray-sphere intersection of the fragment shader: -1.0 or the near root
glsl_intersectSphere(ro, rd, center, radius) ==
    LET oc == sub(ro, center)
        b == dot(oc, rd)
        c == dot(oc, oc) - MulU(radius, radius)
        h == MulU(b, b) - c
    IN IF h < 0 THEN 0 - Unit
       ELSE (0 - b) - Sqrt(h)

----------------------------------------------------------------------------
(* The voxel grid: a flat array addressed by x + y*N + z*N*N *)

Idx(c) == c[1] + c[2] * GRID_SIZE + c[3] * GRID_SIZE * GRID_SIZE
GridAt(grid, i) == IF i \in DOMAIN grid THEN grid[i] ELSE 0
GridPut(grid, i, v) ==
    IF v = 0 THEN [j \in DOMAIN grid \ {i} |-> grid[j]]
    ELSE [j \in DOMAIN grid \cup {i} |-> IF j = i THEN v ELSE grid[j]]

----------------------------------------------------------------------------
(* lib/math intersectVoxels: the 3D DDA of the CPU side, one loop iteration *)
(* at a time.  A traversal is a record; status is "run" while the loop is  *)
(* running, then "hit" or "miss".  sampled is the cell whose grid entry    *)
(* the iteration just executed read (<<>> when it read none).              *)

NoCell == <<>>

\* the bounds test with the upper limits forgotten
CpuInBounds_NoUpper(c, gridSize) == c[1] >= 0 /\ c[2] >= 0 /\ c[3] >= 0

\* !(x < 0 || x >= gridSize || y < 0 || ...)
CpuInBounds(c, gridSize) ==
    /\ c[1] >= 0 /\ c[1] < gridSize
    /\ c[2] >= 0 /\ c[2] < gridSize
    /\ c[3] >= 0 /\ c[3] < gridSize

CpuStart(ro, rd) ==
    LET cell == <<Floor(ro[1]), Floor(ro[2]), Floor(ro[3])>>
        delta == <<AbsRecip(rd[1]), AbsRecip(rd[2]), AbsRecip(rd[3])>>
        first(k) == FMul(IF rd[k] > 0 THEN (cell[k] + 1) * Unit - ro[k]
                                      ELSE ro[k] - cell[k] * Unit,
                         delta[k])
    IN [cell |-> cell,
        step |-> <<IF rd[1] > 0 THEN 1 ELSE -1,
                   IF rd[2] > 0 THEN 1 ELSE -1,
                   IF rd[3] > 0 THEN 1 ELSE -1>>,
        deltaDist |-> delta,
        sideDist |-> <<first(1), first(2), first(3)>>,
        normal |-> <<0, 0, 0>>,
        dist |-> 0,
        i |-> 0,
        status |-> "run",
        voxelId |-> 0,
        sampled |-> NoCell]

\* the cascade with X winning its ties, then Z
AdvanceAxis_XFirst(sd) ==
    IF ~FLt(sd[2], sd[1]) /\ ~FLt(sd[3], sd[1]) THEN 1
    ELSE IF FLt(sd[2], sd[3]) THEN 2 ELSE 3

\* the axis the if-cascade advances: X only when strictly smallest, else Y
\* only when strictly smaller than Z, else Z
AdvanceAxis(sd) ==
    IF FLt(sd[1], sd[2])
    THEN (IF FLt(sd[1], sd[3]) THEN 1 ELSE 3)
    ELSE (IF FLt(sd[2], sd[3]) THEN 2 ELSE 3)

\* the normal written with the sign of the step kept (not negated)
StepNormal_NotNegated(k, step) == [j \in 1..3 |-> IF j = k THEN step[k] ELSE 0]

\* normal = [-stepX, 0, 0] and its like
StepNormal(k, step) == [j \in 1..3 |-> IF j = k THEN 0 - step[k] ELSE 0]

CpuAdvance(s) ==
    LET k == AdvanceAxis(s.sideDist)
    IN [s EXCEPT !.dist = s.sideDist[k],
                 !.sideDist[k] = FAdd(s.sideDist[k], s.deltaDist[k]),
                 !.cell[k] = s.cell[k] + s.step[k],
                 !.normal = StepNormal(k, s.step),
                 !.i = s.i + 1]

CpuIterate(s, grid, gridSize) ==
    IF s.i >= gridSize * 2
    THEN [s EXCEPT !.status = "miss", !.sampled = NoCell]
    ELSE IF ~CpuInBounds(s.cell, gridSize)
    THEN (IF FGt(s.dist, (gridSize * 3 * Unit) \div 2)
          THEN [s EXCEPT !.status = "miss", !.sampled = NoCell]
          ELSE CpuAdvance([s EXCEPT !.sampled = NoCell]))
    ELSE LET voxel == GridAt(grid, Idx(s.cell))
         IN IF voxel > 0
            THEN [s EXCEPT !.status = "hit", !.voxelId = voxel,
                           !.sampled = s.cell]
            ELSE CpuAdvance([s EXCEPT !.sampled = s.cell])

RECURSIVE CpuRun(_, _, _)
CpuRun(s, grid, gridSize) ==
    IF s.status # "run" THEN s
    ELSE CpuRun(CpuIterate(s, grid, gridSize), grid, gridSize)

\* what intersectVoxels returns: the hit record, or hit = FALSE for null
NoHit == [hit |-> FALSE, pos |-> <<0, 0, 0>>, normal |-> <<0, 0, 0>>,
          voxelId |-> 0, t |-> 0]

intersectVoxels(ro, rd, grid, gridSize) ==
    LET s == CpuRun(CpuStart(ro, rd), grid, gridSize)
    IN IF s.status = "hit"
       THEN [hit |-> TRUE, pos |-> s.cell, normal |-> s.normal,
             voxelId |-> s.voxelId, t |-> s.dist]
       ELSE NoHit

----------------------------------------------------------------------------
(* Fragment shader: intersectVoxels and traceShadow *)

Sign(c) == IF c > 0 THEN 1 ELSE IF c < 0 THEN -1 ELSE 0

GlslInBounds(pos) ==
    /\ pos[1] >= 0 /\ pos[1] < GRID_SIZE
    /\ pos[2] >= 0 /\ pos[2] < GRID_SIZE
    /\ pos[3] >= 0 /\ pos[3] < GRID_SIZE

\* pos, step, tDelta, tMax as the shader sets them up; budget is MAX_STEPS
\* (or SHADOW_STEPS), limit the shadow ray's dist
GlslStart(ro, rd, budget, limit) ==
    LET pos == <<Floor(ro[1]), Floor(ro[2]), Floor(ro[3])>>
        sg == <<Sign(rd[1]), Sign(rd[2]), Sign(rd[3])>>
        tDelta == <<AbsRecip(rd[1]), AbsRecip(rd[2]), AbsRecip(rd[3])>>
        first(k) == FMul(sg[k] * (pos[k] * Unit - ro[k] + Unit \div 2)
                             + Unit \div 2,
                         tDelta[k])
    IN [cell |-> pos,
        step |-> sg,
        deltaDist |-> tDelta,
        sideDist |-> <<first(1), first(2), first(3)>>,
        normal |-> <<0, 0, 0>>,
        dist |-> 0,
        i |-> 0,
        status |-> "run",
        voxelId |-> 0,
        sampled |-> NoCell,
        budget |-> budget,
        limit |-> limit]

GlslAdvance(s) ==
    LET k == AdvanceAxis(s.sideDist)
    IN [s EXCEPT !.dist = s.sideDist[k],
                 !.sideDist[k] = FAdd(s.sideDist[k], s.deltaDist[k]),
                 !.cell[k] = s.cell[k] + s.step[k],
                 !.normal = StepNormal(k, s.step),
                 !.i = s.i + 1]

\* one iteration of the loop of the shader's intersectVoxels
GlslIterate(s, grid) ==
    IF s.i >= s.budget
    THEN [s EXCEPT !.status = "miss", !.sampled = NoCell]
    ELSE IF ~GlslInBounds(s.cell)
    THEN (IF FGt(s.dist, MAX_DIST * Unit)
          THEN [s EXCEPT !.status = "miss", !.sampled = NoCell]
          ELSE LET n == GlslAdvance([s EXCEPT !.sampled = NoCell])
               IN IF FGt(n.dist, MAX_DIST * Unit)
                  THEN [n EXCEPT !.status = "miss"] ELSE n)
    ELSE LET id == GridAt(grid, Idx(s.cell))
         IN IF id > 0
            THEN [s EXCEPT !.status = "hit", !.voxelId = id,
                           !.sampled = s.cell]
            ELSE LET n == GlslAdvance([s EXCEPT !.sampled = s.cell])
                 IN IF FGt(n.dist, MAX_DIST * Unit)
                    THEN [n EXCEPT !.status = "miss"] ELSE n

RECURSIVE GlslRun(_, _)
GlslRun(s, grid) ==
    IF s.status # "run" THEN s ELSE GlslRun(GlslIterate(s, grid), grid)

\* VoxelHit(t, normal, id); the cell is the loop's pos when it returned
glsl_intersectVoxels(ro, rd, grid, maxSteps) ==
    LET s == GlslRun(GlslStart(ro, rd, maxSteps, 0), grid)
    IN IF s.status = "hit"
       THEN [t |-> s.dist, normal |-> s.normal, id |-> s.voxelId,
             pos |-> s.cell]
       ELSE [t |-> 0 - Unit, normal |-> <<0, 0, 0>>, id |-> 0,
             pos |-> <<0, 0, 0>>]

\* one iteration of the loop of traceShadow ("hit": in shadow)
ShadowIterate(s, grid) ==
    IF s.i >= s.budget
    THEN [s EXCEPT !.status = "miss", !.sampled = NoCell]
    ELSE IF FGe(s.dist, s.limit)
    THEN [s EXCEPT !.status = "miss", !.sampled = NoCell]
    ELSE IF GlslInBounds(s.cell)
    THEN (IF GridAt(grid, Idx(s.cell)) > 0
          THEN [s EXCEPT !.status = "hit", !.sampled = s.cell]
          ELSE GlslAdvance([s EXCEPT !.sampled = s.cell]))
    ELSE GlslAdvance([s EXCEPT !.sampled = NoCell])


\* traceShadow before its loop: the analytic sphere first, then the set-up
traceShadowStart(ro, rd, dist, sphereOn, shadowSteps) ==
    LET s0 == GlslStart(ro, rd, shadowSteps, dist)
        sT == glsl_intersectSphere(ro, rd, <<16 * Unit, 6 * Unit, 16 * Unit>>,
                                   4 * Unit)
    IN IF sphereOn /\ sT > 0 /\ sT < dist
       THEN [s0 EXCEPT !.status = "hit"]
       ELSE s0

----------------------------------------------------------------------------
(* Quality presets (RayTracerCanvas getQualityConfig); scale in 1/100 *)

QualityModes == {"LOW", "MEDIUM", "HIGH", "ULTRA"}

\* getQualityConfig with the ULTRA case lost: ULTRA falls to the default
getQualityConfig_NoUltra(q) ==
    CASE q = "HIGH" -> [scale |-> 100, maxSteps |-> 384, maxBounces |-> 8,
                        shadowSteps |-> 64]
      [] q = "MEDIUM" -> [scale |-> 75, maxSteps |-> 128, maxBounces |-> 3,
                          shadowSteps |-> 32]
      [] OTHER -> [scale |-> 50, maxSteps |-> 64, maxBounces |-> 2,
                   shadowSteps |-> 16]

getQualityConfig(q) ==
    CASE q = "ULTRA" -> [scale |-> 100, maxSteps |-> 1024, maxBounces |-> 32,
                         shadowSteps |-> 128]
      [] q = "HIGH" -> [scale |-> 100, maxSteps |-> 384, maxBounces |-> 8,
                        shadowSteps |-> 64]
      [] q = "MEDIUM" -> [scale |-> 75, maxSteps |-> 128, maxBounces |-> 3,
                          shadowSteps |-> 32]
      [] OTHER -> [scale |-> 50, maxSteps |-> 64, maxBounces |-> 2,
                   shadowSteps |-> 16]

----------------------------------------------------------------------------
(* The grid and the lights after construction (App useState initialisers) *)

FloorCells == {<<x, 0, z>> : x \in 8..(GRID_SIZE - 8 - 1),
                             z \in 8..(GRID_SIZE - 8 - 1)}

InitialGrid ==
    [i \in {Idx(c) : c \in FloorCells} |->
        LET x == i % GRID_SIZE
            z == i \div (GRID_SIZE * GRID_SIZE)
        IN IF (x + z) % 2 = 0 THEN 15 ELSE 9]

InitialLights ==
    << [position |-> <<16 * Unit, 12 * Unit, 16 * Unit>>,
        color |-> <<Unit, Unit, Unit>>,
        radius |-> 2 * Unit, intensity |-> 3 * Unit],
       [position |-> <<8 * Unit, 5 * Unit, 8 * Unit>>,
        color |-> <<Unit, Unit \div 5, Unit \div 5>>,
        radius |-> 2 * Unit, intensity |-> 2 * Unit] >>

----------------------------------------------------------------------------
(* Inputs of the traversal runs *)

\* a position given in twentieths of a grid unit
P(x, y, z) == <<x * (Unit \div 20), y * (Unit \div 20), z * (Unit \div 20)>>

DirDown == <<0, 0 - Unit, 0>>
DirUp == <<0, Unit, 0>>
DirZ == <<0, 0, Unit>>
DirX == <<Unit, 0, 0>>
DirXZ == <<Num(3, 5), 0, Num(4, 5)>>
DirXY == <<Num(3, 5), Num(4, 5), 0>>
DirYZ == <<0, 0 - Num(3, 5), Num(4, 5)>>
DirDiag == <<Num(2, 3), Num(2, 3), Num(1, 3)>>

RayDirs == {DirDown, DirUp, DirZ, DirX, DirXZ, DirXY, DirYZ, DirDiag}

\* (8.5,10,8.5), (16,8,16), (0.5,0.5,0.5), (16,8,4), (16.5,3.5,14),
\* (4,1,16), outside the grid (16.5,0.5,-2.5), and two origins whose first
\* boundaries are equally far: (4.7,1.5,16.6) along DirXZ, (0.5,0.5,0.75)
\* along DirDiag
RayOrigins == {P(170, 200, 170), P(320, 160, 320), P(10, 10, 10),
               P(320, 160, 80), P(330, 70, 280), P(80, 20, 320),
               P(330, 10, -50), P(94, 30, 332), P(10, 10, 15)}

SingleVoxelGrid == [i \in {Idx(<<8, 0, 8>>)} |-> 9]
FarVoxelGrid == [i \in {Idx(<<30, 30, 15>>), Idx(<<20, 1, 0>>)} |-> 1]

\* a block beside the vertical ray of C7, at (16,8,12): not on its path
OffPathGrid == [i \in {Idx(<<16, 8, 12>>)} |-> 1]

\* mirror blocks, id 100, at (8,0,8) and (16,0,18)
MirrorGrid == [i \in {Idx(<<8, 0, 8>>), Idx(<<16, 0, 18>>)} |-> MIRROR_ID]

GridNames == {"initial", "single", "far"}
TestGrid(name) ==
    CASE name = "initial" -> InitialGrid
      [] name = "single" -> SingleVoxelGrid
      [] name = "offpath" -> OffPathGrid
      [] name = "mirror" -> MirrorGrid
      [] OTHER -> FarVoxelGrid

IdleDda == [impl |-> "none"]
IdleSphere == [pc |-> "idle"]
IdleScene == [pc |-> "idle"]
IdleGfx == [pc |-> "idle"]

\* a shadow ray is followed up to the distance of its light
ShadowDists == {3 * Unit, 40 * Unit}

DdaInit ==
    \E ro \in RayOrigins, rd \in RayDirs, g \in GridNames :
        \/ dda = [impl |-> "cpu", ro |-> ro, rd |-> rd, grid |-> g,
                  quality |-> "LOW", s |-> CpuStart(ro, rd)]
        \/ \E q \in QualityModes :
              dda = [impl |-> "gpu", ro |-> ro, rd |-> rd, grid |-> g,
                     quality |-> q,
                     s |-> GlslStart(ro, rd, getQualityConfig(q).maxSteps, 0)]
        \/ \E q \in {"LOW", "ULTRA"}, d \in ShadowDists, sp \in BOOLEAN :
              dda = [impl |-> "shadow", ro |-> ro, rd |-> rd, grid |-> g,
                     quality |-> q,
                     s |-> traceShadowStart(ro, rd, d, sp,
                                            getQualityConfig(q).shadowSteps)]

DdaCpuStep ==
    /\ dda.impl = "cpu" /\ dda.s.status = "run"
    /\ dda' = [dda EXCEPT !.s = CpuIterate(dda.s, TestGrid(dda.grid), GRID_SIZE)]
    /\ UNCHANGED <<appVars, sphereCall, scene, gfx>>

DdaGpuStep ==
    /\ dda.impl = "gpu" /\ dda.s.status = "run"
    /\ dda' = [dda EXCEPT !.s = GlslIterate(dda.s, TestGrid(dda.grid))]
    /\ UNCHANGED <<appVars, sphereCall, scene, gfx>>

DdaShadowStep ==
    /\ dda.impl = "shadow" /\ dda.s.status = "run"
    /\ dda' = [dda EXCEPT !.s = ShadowIterate(dda.s, TestGrid(dda.grid))]
    /\ UNCHANGED <<appVars, sphereCall, scene, gfx>>


----------------------------------------------------------------------------
(* The palette (types.ts) and the camera angles *)

PALETTE(i) ==
    CASE i = 0 -> <<1080, 1080, 1080>> [] i = 1 -> <<960, 240, 240>>
      [] i = 2 -> <<240, 960, 240>>    [] i = 3 -> <<240, 240, 960>>
      [] i = 4 -> <<1080, 720, 120>>   [] i = 5 -> <<1080, 1080, 240>>
      [] i = 6 -> <<720, 240, 960>>    [] i = 7 -> <<240, 1080, 1080>>
      [] i = 8 -> <<600, 600, 600>>    [] i = 9 -> <<240, 240, 240>>
      [] i = 10 -> <<600, 0, 0>>       [] i = 11 -> <<0, 600, 0>>
      [] i = 12 -> <<1080, 600, 600>>  [] i = 13 -> <<480, 240, 0>>
      [] i = 14 -> <<720, 840, 960>>   [] OTHER -> <<120, 120, 120>>

\* An angle counts steps of the mouse sensitivity, 0.002 rad: the pitch limit
\* 1.5 rad is 750 steps, the initial pitch -0.2 rad is -100 steps.
PitchLimit == 1500 \div 2

\* Math.sin and Math.cos, to the nearest unit, on the angles of the model:
\* 0; -0.2 rad; +-0.644 rad (sin 0.6, cos 0.8); +-1.5 rad
TrigAngles == {0, -100, 322, -322, 750, -750}
Sin(a) ==
    CASE a = 0 -> 0 [] a = -100 -> -238 [] a = 322 -> 720 [] a = -322 -> -720
      [] a = 750 -> 1197 [] OTHER -> -1197
Cos(a) ==
    CASE a = 0 -> 1200 [] a = -100 -> 1176 [] a = 322 -> 960 [] a = -322 -> 960
      [] OTHER -> 85

\* camDir = [sy * cp, sp, cy * cp]
CamDir(angle) ==
    <<MulU(Sin(angle.yaw), Cos(angle.pitch)),
      Sin(angle.pitch),
      MulU(Cos(angle.yaw), Cos(angle.pitch))>>

----------------------------------------------------------------------------
(* RayTracerCanvas performRaycastAction: what a click targets *)

\* the scan with t <= minLightDist: of two lights equally near, the later wins
RECURSIVE ClosestLight_LastOnTie(_, _, _, _, _)
ClosestLight_LastOnTie(camPos, camDir, lts, i, best) ==
    IF i >= Len(lts) THEN best
    ELSE LET t == intersectSphere(camPos, camDir, lts[i + 1].position,
                                  Unit \div 5)
         IN ClosestLight_LastOnTie(camPos, camDir, lts, i + 1,
                                   IF t # Null /\ t > 0 /\ t <= best[2]
                                   THEN <<i, t>> ELSE best)

\* lights.forEach: best is <<closestLightIdx, minLightDist>>, indices from 0
RECURSIVE ClosestLight(_, _, _, _, _)
ClosestLight(camPos, camDir, lts, i, best) ==
    IF i >= Len(lts) THEN best
    ELSE LET t == intersectSphere(camPos, camDir, lts[i + 1].position,
                                  Unit \div 5)
         IN ClosestLight(camPos, camDir, lts, i + 1,
                         IF t # Null /\ t > 0 /\ t < best[2]
                         THEN <<i, t>> ELSE best)

PickTarget(camPos, camDir, lts, grid) ==
    LET best == ClosestLight(camPos, camDir, lts, 0, <<-1, 100 * Unit>>)
        hit == intersectVoxels(camPos, camDir, grid, GRID_SIZE)
        voxelDist == IF hit.hit THEN hit.t ELSE 1000 * Unit
    IN IF best[1] # -1 /\ FLt(best[2], voxelDist)
       THEN [kind |-> "light", lightIdx |-> best[1], hit |-> NoHit]
       ELSE IF hit.hit
       THEN [kind |-> "voxel", lightIdx |-> -1, hit |-> hit]
       ELSE [kind |-> "none", lightIdx |-> -1, hit |-> NoHit]

----------------------------------------------------------------------------
(* App handleBlockAction and handleLightClick *)

CellCenter(c) == <<c[1] * Unit + Unit \div 2, c[2] * Unit + Unit \div 2,
                   c[3] * Unit + Unit \div 2>>

\* the Block tool without the test that keeps blocks out of the player
BlockAccepted_NoCollision(hitPos, normal, camPosState) ==
    LET target == add(hitPos, normal)
    IN /\ target[1] >= 0 /\ target[1] < GRID_SIZE
       /\ target[2] >= 0 /\ target[2] < GRID_SIZE
       /\ target[3] >= 0 /\ target[3] < GRID_SIZE

\* the Block tool writes: target inside the grid and its center farther than
\* 1.0 from the camera position the callback captured
BlockAccepted(hitPos, normal, camPosState) ==
    LET target == add(hitPos, normal)
    IN /\ target[1] >= 0 /\ target[1] < GRID_SIZE
       /\ target[2] >= 0 /\ target[2] < GRID_SIZE
       /\ target[3] >= 0 /\ target[3] < GRID_SIZE
       /\ len(sub(CellCenter(target), camPosState)) > Unit

\* the Block tool writing the palette index + 2
BlockActionGrid_IdPastIndex(prev, hitPos, normal, tl, colorIdx, mirror, camPosState) ==
    IF tl = "DELETE"
    THEN (IF Idx(hitPos) >= 0 /\ Idx(hitPos) < GRID_SIZE * GRID_SIZE * GRID_SIZE
          THEN GridPut(prev, Idx(hitPos), 0) ELSE prev)
    ELSE IF tl = "BLOCK" /\ BlockAccepted(hitPos, normal, camPosState)
    THEN GridPut(prev, Idx(add(hitPos, normal)),
                 IF mirror THEN MIRROR_ID ELSE colorIdx + 2)
    ELSE prev

\* setGridData(prev => ...)
BlockActionGrid(prev, hitPos, normal, tl, colorIdx, mirror, camPosState) ==
    IF tl = "DELETE"
    THEN (IF Idx(hitPos) >= 0 /\ Idx(hitPos) < GRID_SIZE * GRID_SIZE * GRID_SIZE
          THEN GridPut(prev, Idx(hitPos), 0) ELSE prev)
    ELSE IF tl = "BLOCK" /\ BlockAccepted(hitPos, normal, camPosState)
    THEN GridPut(prev, Idx(add(hitPos, normal)),
                 IF mirror THEN MIRROR_ID ELSE colorIdx + 1)
    ELSE prev

\* the light put into the hit cell instead of the cell in front of it
NewLight_AtHitCell(hitPos, normal, colorIdx) ==
    [position |-> CellCenter(hitPos),
     color |-> PALETTE(colorIdx),
     radius |-> 2 * Unit, intensity |-> 2 * Unit]

\* handleBlockAction, Light tool: newLight
NewLight(hitPos, normal, colorIdx) ==
    [position |-> CellCenter(add(hitPos, normal)),
     color |-> PALETTE(colorIdx),
     radius |-> 2 * Unit, intensity |-> 2 * Unit]

\* the capacity test off by one
BlockActionLights_OffByOne(prev, hitPos, normal, tl, colorIdx) ==
    IF tl = "LIGHT" /\ Len(prev) <= MaxLights
    THEN Append(prev, NewLight(hitPos, normal, colorIdx))
    ELSE prev

\* setLights(prev => prev.length < 10 ? [...prev, newLight] : prev)
BlockActionLights(prev, hitPos, normal, tl, colorIdx) ==
    IF tl = "LIGHT" /\ Len(prev) < MaxLights
    THEN Append(prev, NewLight(hitPos, normal, colorIdx))
    ELSE prev

\* the filter keeping the light clicked and dropping the one after it
LightClickLights_NextIndex(prev, lightIndex, tl) ==
    IF tl = "DELETE"
    THEN [j \in 1..(Len(prev) - 1) |->
             IF j <= lightIndex + 1 THEN prev[j] ELSE prev[j + 1]]
    ELSE prev

\* prev.filter((_, i) => i !== lightIndex), lightIndex from 0
LightClickLights(prev, lightIndex, tl) ==
    IF tl = "DELETE"
    THEN [j \in 1..(Len(prev) - 1) |->
             IF j <= lightIndex THEN prev[j] ELSE prev[j + 1]]
    ELSE prev


----------------------------------------------------------------------------
(* The application after construction *)

\* lastClick: what the last click targeted and the state it found (colorIdx
\* and mirror: the material a Block-tool click on a voxel was given);
\* roundTrip: the state before an accepted Block placement, kept while the
\* next click, with the Delete tool from the same pose, is awaited and judged
NoClick ==
    [kind |-> "none", tool |-> "BLOCK", lightIdx |-> -1, pos |-> <<0, 0, 0>>,
     normal |-> <<0, 0, 0>>, gridBefore |-> InitialGrid,
     lightsBefore |-> InitialLights, rayOrigin |-> <<0, 0, 0>>,
     cameraPos |-> <<0, 0, 0>>, colorIdx |-> 0, mirror |-> FALSE]
NoRoundTrip ==
    [phase |-> "none", grid0 |-> InitialGrid, lights0 |-> InitialLights,
     pos |-> <<0, 0, 0>>, angle |-> [yaw |-> 0, pitch |-> 0]]

\* camera poses the runs start from: the constructed one, (16,8,4) pitch -0.2
\* rad, and poses the user reaches by flying and looking around
ConstructionPose == [pos |-> P(320, 160, 80), angle |-> [yaw |-> 0, pitch |-> -100]]
\* (16.5,3.5,14) looking down at the floor; (16.05,1.25,15.75) just above it
AppPoses ==
    {ConstructionPose,
     [pos |-> P(330, 70, 280), angle |-> [yaw |-> 0, pitch |-> -322]],
     [pos |-> P(321, 25, 315), angle |-> [yaw |-> 0, pitch |-> -750]]}
\* (16.5,3.5,14) again; (16,12,10.5) facing the first light; (8.05,9,7.75)
\* above the second light and the floor cell (8,0,8) under it
LightPoses ==
    {[pos |-> P(330, 70, 280), angle |-> [yaw |-> 0, pitch |-> -322]],
     [pos |-> P(320, 240, 210), angle |-> [yaw |-> 0, pitch |-> 0]],
     [pos |-> P(161, 180, 155), angle |-> [yaw |-> 0, pitch |-> -750]]}

AppStart(pose) ==
    /\ gridData = InitialGrid
    /\ lights = InitialLights
    /\ cameraPos = pose.pos
    /\ cameraAngle = pose.angle
    /\ tool = "BLOCK"
    /\ selectedColorIdx = 0
    /\ isMirrorSelected = FALSE
    /\ showSphere = TRUE
    /\ qualityMode = "LOW"
    /\ cameraPosRef = pose.pos
    /\ cameraAngleRef = pose.angle
    /\ pointerLocked = FALSE
    /\ nClicks = 0
    /\ nFrames = 0
    /\ nMouseMoves = 0
    /\ lastClick = NoClick
    /\ roundTrip = NoRoundTrip

----------------------------------------------------------------------------
(* The application: the handlers of RayTracerCanvas and App *)

Tools == {"BLOCK", "DELETE", "LIGHT"}

\* handleMouseDown outside pointer lock: requestPointerLock, granted
LockPointer ==
    /\ ~pointerLocked
    /\ pointerLocked' = TRUE
    /\ UNCHANGED <<gridData, lights, cameraPos, cameraAngle, tool,
                   selectedColorIdx, isMirrorSelected, showSphere, qualityMode,
                   cameraPosRef, cameraAngleRef, nClicks, nFrames, nMouseMoves,
                   lastClick, roundTrip, sphereCall, dda, scene, gfx>>

\* pointerlockchange: the user left pointer lock
ExitPointerLock ==
    /\ pointerLocked
    /\ pointerLocked' = FALSE
    /\ UNCHANGED <<gridData, lights, cameraPos, cameraAngle, tool,
                   selectedColorIdx, isMirrorSelected, showSphere, qualityMode,
                   cameraPosRef, cameraAngleRef, nClicks, nFrames, nMouseMoves,
                   lastClick, roundTrip, sphereCall, dda, scene, gfx>>

\* performRaycastAction with the handlers it calls.  The ray is cast from the
\* refs; handleBlockAction checks the collision against the cameraPos state
\* of the render it was created in.
Raycast ==
    \E target \in {PickTarget(cameraPosRef, CamDir(cameraAngleRef), lights,
                              gridData)} :
    LET hit == target.hit
        placed == /\ target.kind = "voxel" /\ tool = "BLOCK"
                  /\ BlockAccepted(hit.pos, hit.normal, cameraPos)
    IN /\ gridData' =
             IF target.kind = "voxel"
             THEN BlockActionGrid(gridData, hit.pos, hit.normal, tool,
                                  selectedColorIdx, isMirrorSelected, cameraPos)
             ELSE gridData
       /\ lights' =
             IF target.kind = "voxel"
             THEN BlockActionLights(lights, hit.pos, hit.normal, tool,
                                    selectedColorIdx)
             ELSE IF target.kind = "light"
             THEN LightClickLights(lights, target.lightIdx, tool)
             ELSE lights
       /\ lastClick' =
             [kind |-> target.kind, tool |-> tool,
              lightIdx |-> target.lightIdx, pos |-> hit.pos,
              normal |-> hit.normal, gridBefore |-> gridData,
              lightsBefore |-> lights, rayOrigin |-> cameraPosRef,
              cameraPos |-> cameraPos,
              colorIdx |-> IF target.kind = "voxel" /\ tool = "BLOCK"
                           THEN selectedColorIdx ELSE 0,
              mirror |-> target.kind = "voxel" /\ tool = "BLOCK"
                            /\ isMirrorSelected]
       /\ roundTrip' =
             IF placed
             THEN [phase |-> "placed", grid0 |-> gridData, lights0 |-> lights,
                   pos |-> cameraPosRef, angle |-> cameraAngleRef]
             ELSE IF /\ roundTrip.phase = "placed" /\ tool = "DELETE"
                     /\ roundTrip.pos = cameraPosRef
                     /\ roundTrip.angle = cameraAngleRef
             THEN [roundTrip EXCEPT !.phase = "deleted"]
             ELSE NoRoundTrip

\* handleMouseDown under pointer lock
Click ==
    /\ pointerLocked
    /\ nClicks < MaxClicks
    /\ Raycast
    /\ nClicks' = nClicks + 1
    /\ UNCHANGED <<cameraPos, cameraAngle, tool, selectedColorIdx,
                   isMirrorSelected, showSphere, qualityMode, cameraPosRef,
                   cameraAngleRef, pointerLocked, nFrames, nMouseMoves,
                   sphereCall, dda, scene, gfx>>

\* key states a frame may find: forward, right, up in -1..1, shift
KeyStates ==
    {[forward |-> 1, right |-> 0, up |-> -1, shift |-> TRUE],
     [forward |-> -1, right |-> 1, up |-> 1, shift |-> FALSE]}

\* newPos of updateCamera for the keys k
NewPos(pos, yaw, k) ==
    LET speed == IF k.shift THEN 2 * Num(3, 20) ELSE Num(3, 20)
        front == <<Sin(yaw), 0, Cos(yaw)>>
        rVec == <<Cos(yaw), 0, 0 - Sin(yaw)>>
        p1 == add(pos, scale(front, k.forward * speed))
        p2 == add(p1, scale(rVec, k.right * speed))
    IN <<p2[1], p2[2] + k.up * speed, p2[3]>>

\* updateCamera in a frame that finds a movement key down: the ref moves at
\* once; onCameraMove only queues the state update (see Rerender)
UpdateCamera ==
    /\ pointerLocked
    /\ nFrames < MaxFrames
    /\ \E k \in KeyStates :
          cameraPosRef' = NewPos(cameraPosRef, cameraAngleRef.yaw, k)
    /\ nFrames' = nFrames + 1
    /\ UNCHANGED <<gridData, lights, cameraPos, cameraAngle, tool,
                   selectedColorIdx, isMirrorSelected, showSphere, qualityMode,
                   cameraAngleRef, pointerLocked, nClicks, nMouseMoves,
                   lastClick, roundTrip, sphereCall, dda, scene, gfx>>

\* e.movementX, e.movementY of the mouse-move events of the model
MouseDeltas == {0, 2000, -2000}

\* Math.max(lo, a) alone
Clamp_NoUpper(lo, hi, a) == IF a < lo THEN lo ELSE a

\* Math.max(lo, Math.min(hi, a))
Clamp(lo, hi, a) == IF a < lo THEN lo ELSE IF a > hi THEN hi ELSE a

\* handleMouseMove under pointer lock (the events of the model lead to angles
\* of the trigonometric table)
MouseMove ==
    /\ pointerLocked
    /\ nMouseMoves < MaxMouseMoves
    /\ \E dx \in MouseDeltas, dy \in MouseDeltas :
          LET newYaw == cameraAngleRef.yaw + dx
              newPitch == Clamp(0 - PitchLimit, PitchLimit,
                                cameraAngleRef.pitch - dy)
          IN /\ newYaw \in TrigAngles /\ newPitch \in TrigAngles
             /\ <<dx, dy>> # <<0, 0>>
             /\ cameraAngleRef' = [yaw |-> newYaw, pitch |-> newPitch]
    /\ nMouseMoves' = nMouseMoves + 1
    /\ UNCHANGED <<gridData, lights, cameraPos, cameraAngle, tool,
                   selectedColorIdx, isMirrorSelected, showSphere, qualityMode,
                   cameraPosRef, pointerLocked, nClicks, nFrames, lastClick,
                   roundTrip, sphereCall, dda, scene, gfx>>

\* e.movementY of the mouse-move events that only the pitch is followed
\* through: small and large, both ways
LookDeltas == {0, 1, -1, 400, -400, 2000, -2000}

\* handleMouseMove under pointer lock, any vertical movement (the yaw stays
\* among the angles of the trigonometric table, for updateCamera)
MouseLook ==
    /\ pointerLocked
    /\ nMouseMoves < MaxLooks
    /\ \E dx \in MouseDeltas, dy \in LookDeltas :
          LET newYaw == cameraAngleRef.yaw + dx
              newPitch == Clamp(0 - PitchLimit, PitchLimit,
                                cameraAngleRef.pitch - dy)
          IN /\ newYaw \in TrigAngles
             /\ <<dx, dy>> # <<0, 0>>
             /\ cameraAngleRef' = [yaw |-> newYaw, pitch |-> newPitch]
    /\ nMouseMoves' = nMouseMoves + 1
    /\ UNCHANGED <<gridData, lights, cameraPos, cameraAngle, tool,
                   selectedColorIdx, isMirrorSelected, showSphere, qualityMode,
                   cameraPosRef, pointerLocked, nClicks, nFrames, lastClick,
                   roundTrip, sphereCall, dda, scene, gfx>>

\* App handleCameraMove committed: the render that follows setCameraPos /
\* setCameraAngle, in a later task than the frame or event that queued it
Rerender ==
    /\ (cameraPos # cameraPosRef \/ cameraAngle # cameraAngleRef)
    /\ cameraPos' = cameraPosRef
    /\ cameraAngle' = cameraAngleRef
    /\ UNCHANGED <<gridData, lights, tool, selectedColorIdx, isMirrorSelected,
                   showSphere, qualityMode, cameraPosRef, cameraAngleRef,
                   pointerLocked, nClicks, nFrames, nMouseMoves, lastClick,
                   roundTrip, sphereCall, dda, scene, gfx>>

\* Controls onSelectTool
SelectTool ==
    /\ \E t \in Tools : t # tool /\ tool' = t
    /\ UNCHANGED <<gridData, lights, cameraPos, cameraAngle, selectedColorIdx,
                   isMirrorSelected, showSphere, qualityMode, cameraPosRef,
                   cameraAngleRef, pointerLocked, nClicks, nFrames,
                   nMouseMoves, lastClick, roundTrip, sphereCall, dda, scene, gfx>>

\* App handleSelectColor
SelectColor ==
    /\ \E idx \in 0..MaxColorIdx :
          /\ (idx # selectedColorIdx \/ isMirrorSelected \/ tool # "BLOCK")
          /\ selectedColorIdx' = idx
    /\ isMirrorSelected' = FALSE
    /\ tool' = "BLOCK"
    /\ UNCHANGED <<gridData, lights, cameraPos, cameraAngle, showSphere,
                   qualityMode, cameraPosRef, cameraAngleRef, pointerLocked,
                   nClicks, nFrames, nMouseMoves, lastClick, roundTrip,
                   sphereCall, dda, scene, gfx>>

\* the palette buttons of Controls, one per entry of PALETTE, call
\* onSelectColor with the entry's index, 0..15: the buttons pressed here are
\* the first ones and the last one
PaletteChoices == (0..MaxColorIdx) \cup {PALETTE_SIZE - 1}

\* App handleSelectColor, from any of these buttons
SelectPaletteColor ==
    /\ \E idx \in PaletteChoices :
          /\ (idx # selectedColorIdx \/ isMirrorSelected \/ tool # "BLOCK")
          /\ selectedColorIdx' = idx
    /\ isMirrorSelected' = FALSE
    /\ tool' = "BLOCK"
    /\ UNCHANGED <<gridData, lights, cameraPos, cameraAngle, showSphere,
                   qualityMode, cameraPosRef, cameraAngleRef, pointerLocked,
                   nClicks, nFrames, nMouseMoves, lastClick, roundTrip,
                   sphereCall, dda, scene, gfx>>

\* App handleSelectMirror
SelectMirror ==
    /\ (~isMirrorSelected \/ tool # "BLOCK")
    /\ isMirrorSelected' = TRUE
    /\ tool' = "BLOCK"
    /\ UNCHANGED <<gridData, lights, cameraPos, cameraAngle, selectedColorIdx,
                   showSphere, qualityMode, cameraPosRef, cameraAngleRef,
                   pointerLocked, nClicks, nFrames, nMouseMoves, lastClick,
                   roundTrip, sphereCall, dda, scene, gfx>>

Init ==
    /\ \E pose \in AppPoses : AppStart(pose)
    /\ sphereCall = IdleSphere
    /\ dda = IdleDda
    /\ scene = IdleScene
    /\ gfx = IdleGfx

Next ==
    \/ LockPointer
    \/ ExitPointerLock
    \/ Click
    \/ UpdateCamera
    \/ MouseMove
    \/ Rerender
    \/ SelectTool
    \/ SelectColor
    \/ SelectMirror

Spec == Init /\ [][Next]_vars

----------------------------------------------------------------------------
(* Specification of the lights collection: the edits alone, from poses that *)
(* look at the floor and at the two initial lights.  Clicks with the Light  *)
(* tool are not counted: the capacity of the collection bounds them.        *)

LightToolClick ==
    /\ pointerLocked
    /\ tool = "LIGHT"
    /\ Raycast
    /\ UNCHANGED <<cameraPos, cameraAngle, tool, selectedColorIdx,
                   isMirrorSelected, showSphere, qualityMode, cameraPosRef,
                   cameraAngleRef, pointerLocked, nClicks, nFrames,
                   nMouseMoves, sphereCall, dda, scene, gfx>>

InitLights ==
    /\ \E pose \in LightPoses : AppStart(pose)
    /\ sphereCall = IdleSphere
    /\ dda = IdleDda
    /\ scene = IdleScene
    /\ gfx = IdleGfx

NextLights ==
    \/ LockPointer
    \/ LightToolClick
    \/ Click
    \/ SelectTool

SpecLights == InitLights /\ [][NextLights]_vars

\* C1: the lights collection never holds more than 10 lights, and a click of
\* the Light tool that targets a voxel while 10 lights are present leaves the
\* collection as it was: same lights, same order, length 10.
C1_AtMostTenLights ==
    /\ Len(lights) <= MaxLights
    /\ (/\ lastClick.kind = "voxel" /\ lastClick.tool = "LIGHT"
        /\ Len(lastClick.lightsBefore) = MaxLights) =>
          (lights = lastClick.lightsBefore /\ Len(lights) = MaxLights)

\* C1, reached: the Light tool was used on a voxel with 10 lights present,
\* after one of the two initial lights had been removed
C1_PlacementAtCapacity ==
    /\ lastClick.kind = "voxel" /\ lastClick.tool = "LIGHT"
    /\ Len(lastClick.lightsBefore) = MaxLights
    /\ lights[2] # InitialLights[2]

\* C20: with the Delete tool, a click that targets light i removes exactly
\* that light (one light fewer, the others with their values, in their
\* order, no grid cell changed), and a click that targets a voxel empties
\* exactly that cell and leaves every other cell and the lights unchanged.
C20_DeleteRemovesExactlyTheTarget ==
    /\ (lastClick.kind = "light" /\ lastClick.tool = "DELETE") =>
          /\ Len(lights) = Len(lastClick.lightsBefore) - 1
          /\ \A j \in 1..Len(lights) :
                lights[j] = lastClick.lightsBefore[
                               IF j - 1 < lastClick.lightIdx THEN j ELSE j + 1]
          /\ gridData = lastClick.gridBefore
    /\ (lastClick.kind = "voxel" /\ lastClick.tool = "DELETE") =>
          /\ lights = lastClick.lightsBefore
          /\ \A i \in DOMAIN gridData \cup DOMAIN lastClick.gridBefore :
                GridAt(gridData, i) =
                   IF i = Idx(lastClick.pos) THEN 0
                   ELSE GridAt(lastClick.gridBefore, i)

\* C20, reached: the Delete tool removed the first of two lights, the second
\* is now the only one
C20_FirstLightDeleted ==
    /\ lastClick.kind = "light" /\ lastClick.tool = "DELETE"
    /\ lastClick.lightIdx = 0
    /\ Len(lastClick.lightsBefore) = 2
    /\ lights = <<lastClick.lightsBefore[2]>>

\* the Delete tool emptied a floor cell
C20_VoxelDeleted ==
    /\ lastClick.kind = "voxel" /\ lastClick.tool = "DELETE"
    /\ GridAt(lastClick.gridBefore, Idx(lastClick.pos)) # 0
    /\ GridAt(gridData, Idx(lastClick.pos)) = 0

----------------------------------------------------------------------------
(* Specification of the Block tool: clicks and the selection of tool, colour *)
(* and material, from poses whose click is accepted, is rejected for being   *)
(* too near the camera, and is rejected for leaving the grid.                *)

\* (16.5,3.5,14) looking down at the floor; (16.05,1.25,15.75) just above the
\* floor; (16.5,-2.5,16.5) under the floor, looking up at its lower face
BlockPoses ==
    {[pos |-> P(330, 70, 280), angle |-> [yaw |-> 0, pitch |-> -322]],
     [pos |-> P(321, 25, 315), angle |-> [yaw |-> 0, pitch |-> -750]],
     [pos |-> P(330, -50, 330), angle |-> [yaw |-> 0, pitch |-> 750]]}

InitBlock ==
    /\ \E pose \in BlockPoses : AppStart(pose)
    /\ sphereCall = IdleSphere
    /\ dda = IdleDda
    /\ scene = IdleScene
    /\ gfx = IdleGfx

NextBlock ==
    \/ LockPointer
    \/ Click
    \/ SelectTool
    \/ SelectColor
    \/ SelectMirror

SpecBlock == InitBlock /\ [][NextBlock]_vars

\* the cell a Block-tool click aims at: hit cell + face normal
C11_Target == add(lastClick.pos, lastClick.normal)
C11_TargetInGrid == \A a \in 1..3 : C11_Target[a] >= 0 /\ C11_Target[a] < GRID_SIZE
C11_TargetNearCamera ==
    len(sub(CellCenter(C11_Target), lastClick.cameraPos)) <= Unit

\* C11: a Block-tool click on a voxel leaves every grid cell unchanged when
\* the target cell, hit cell + face normal, lies outside [0,32)^3 or its
\* center is within distance 1.0 of the camera position; otherwise exactly
\* the target cell holds selected palette index + 1, or 100 with the mirror
\* material, every other cell is unchanged, and no light changes.
C11_BlockToolRejectsOrWritesTarget ==
    (lastClick.kind = "voxel" /\ lastClick.tool = "BLOCK") =>
       /\ lights = lastClick.lightsBefore
       /\ IF ~C11_TargetInGrid \/ C11_TargetNearCamera
          THEN gridData = lastClick.gridBefore
          ELSE \A i \in DOMAIN gridData \cup DOMAIN lastClick.gridBefore :
                  GridAt(gridData, i) =
                     IF i = Idx(C11_Target)
                     THEN (IF lastClick.mirror THEN MIRROR_ID
                           ELSE lastClick.colorIdx + 1)
                     ELSE GridAt(lastClick.gridBefore, i)

\* C11, reached: a Block-tool click rejected for its target being near the
\* camera
C11_RejectedNearCamera ==
    /\ lastClick.kind = "voxel" /\ lastClick.tool = "BLOCK"
    /\ C11_TargetInGrid /\ C11_TargetNearCamera

\* a Block-tool click rejected for its target lying outside the grid
C11_RejectedOutsideGrid ==
    /\ lastClick.kind = "voxel" /\ lastClick.tool = "BLOCK"
    /\ ~C11_TargetInGrid

\* a mirror block written
C11_MirrorWritten ==
    /\ lastClick.kind = "voxel" /\ lastClick.tool = "BLOCK"
    /\ C11_TargetInGrid /\ ~C11_TargetNearCamera /\ lastClick.mirror
    /\ GridAt(gridData, Idx(C11_Target)) = MIRROR_ID

\* C21: with the Light tool and fewer than 10 lights, a click that targets a
\* voxel appends exactly one light: at the center of the target cell (hit
\* cell + face normal, plus 0.5 on each axis), with the selected palette
\* color, radius 2.0 and intensity 2.0; the lights already there keep their
\* places and no grid cell changes.
C21_LightToolAppendsOneLight ==
    [][(/\ nClicks' = nClicks + 1
        /\ tool = "LIGHT" /\ lastClick'.kind = "voxel"
        /\ Len(lights) < MaxLights) =>
          /\ lights' =
                Append(lights,
                       [position |->
                           <<(lastClick'.pos[1] + lastClick'.normal[1]) * Unit
                                + Unit \div 2,
                             (lastClick'.pos[2] + lastClick'.normal[2]) * Unit
                                + Unit \div 2,
                             (lastClick'.pos[3] + lastClick'.normal[3]) * Unit
                                + Unit \div 2>>,
                        color |-> PALETTE(selectedColorIdx),
                        radius |-> 2 * Unit, intensity |-> 2 * Unit])
          /\ \A i \in DOMAIN gridData \cup DOMAIN gridData' :
                GridAt(gridData', i) = GridAt(gridData, i)]_vars

\* C21, reached: the Light tool added a third light of the second palette
\* color, in the cell above the floor cell clicked
C21_SecondColorLightAdded ==
    /\ lastClick.kind = "voxel" /\ lastClick.tool = "LIGHT"
    /\ lastClick.normal = <<0, 1, 0>>
    /\ Len(lastClick.lightsBefore) = 2 /\ Len(lights) = 3
    /\ lights[3].color = PALETTE(1)
    /\ lights[3].position[2] = Unit + Unit \div 2

\* the Light tool added a light under the grid, in the cell (16,-1,16)
C21_LightAddedOutsideGrid ==
    /\ lastClick.kind = "voxel" /\ lastClick.tool = "LIGHT"
    /\ Len(lights) = Len(lastClick.lightsBefore) + 1
    /\ lights[Len(lights)].position[2] = 0 - Unit \div 2

----------------------------------------------------------------------------
(* Specification of the grid's contents: clicks with the three tools, every *)
(* palette color and the mirror material selectable, from the poses of the  *)
(* Block tool's specification.                                              *)

NextPalette ==
    \/ LockPointer
    \/ Click
    \/ SelectTool
    \/ SelectPaletteColor
    \/ SelectMirror

SpecPalette == InitBlock /\ [][NextPalette]_vars

\* C23: in every reachable state the grid has exactly 32*32*32 cells (the
\* cells that hold a block have indices in 0..32767, every other cell of
\* that range holds 0) and every cell holds 0, a palette id in 1..16, or the
\* mirror id 100.
C23_CellsHoldPaletteOrMirrorIds ==
    /\ DOMAIN gridData \subseteq 0..(GRID_SIZE * GRID_SIZE * GRID_SIZE - 1)
    /\ \A i \in DOMAIN gridData :
          GridAt(gridData, i) \in (0..16) \cup {100}

\* C23, reached: after a Block-tool click with the last palette color and
\* one with the mirror material, a cell holds 16 and another holds 100
C23_LastColorAndMirrorPlaced ==
    /\ nClicks = 2
    /\ \E i, j \in DOMAIN gridData \ DOMAIN InitialGrid :
          gridData[i] = 16 /\ gridData[j] = 100

\* a floor cell was emptied and a light was added
C23_DeletedAndLit ==
    /\ nClicks = 2
    /\ \E i \in DOMAIN InitialGrid : GridAt(gridData, i) = 0
    /\ Len(lights) = 3

----------------------------------------------------------------------------
(* Specification of the camera's orientation: mouse-move events with any    *)
(* vertical movement, camera-moving frames and the renders that commit      *)
(* them, from the poses of the application's specification.                 *)

NextLook ==
    \/ LockPointer
    \/ ExitPointerLock
    \/ MouseLook
    \/ UpdateCamera
    \/ Rerender

SpecLook == Init /\ [][NextLook]_vars

\* C24: after any sequence of mouse-move events and camera moves the camera
\* pitch lies in [-1.5, 1.5] (750 steps of 0.002 rad), in the canvas's ref
\* and in the App's state alike.
C24_PitchWithinLimits ==
    /\ cameraAngleRef.pitch >= 0 - 750 /\ cameraAngleRef.pitch <= 750
    /\ cameraAngle.pitch >= 0 - 750 /\ cameraAngle.pitch <= 750

\* C24, reached: a mouse move past the upper limit left the pitch at 1.5,
\* a frame moved the camera, and the App's state has received both
C24_HeldAtUpperLimit ==
    /\ nMouseMoves > 0 /\ nFrames > 0
    /\ cameraAngleRef.pitch = 750
    /\ cameraAngle = cameraAngleRef /\ cameraPos = cameraPosRef

\* mouse moves brought the pitch from the upper limit to the lower one
C24_FromUpperToLowerLimit ==
    /\ nMouseMoves > 1
    /\ cameraAngle.pitch = 750
    /\ cameraAngleRef.pitch = 0 - 750

----------------------------------------------------------------------------
(* Claims about the application, checked under Spec *)

\* C2 as stated: when a Block-tool click has placed a block and the next
\* click, from the same camera pose, was made with the Delete tool, the grid
\* is cell for cell the grid before the two clicks, and the lights are the
\* lights before them (after the first click already).
C2_PlaceThenDeleteRestoresGrid ==
    /\ roundTrip.phase = "placed" => lights = roundTrip.lights0
    /\ roundTrip.phase = "deleted" =>
          /\ gridData = roundTrip.grid0
          /\ lights = roundTrip.lights0

\* C2, the failing run: after the two clicks a cell that held a block before
\* them is empty
C2_RoundTripLostABlock ==
    /\ roundTrip.phase = "deleted"
    /\ \E i \in DOMAIN roundTrip.grid0 : GridAt(gridData, i) = 0

\* C16 as stated: whatever frames, mouse moves and clicks came before, the
\* camera position the Block tool's collision check used (the cameraPos state
\* handleBlockAction captured) is the position the click's pick ray was cast
\* from (cameraPosRef), so a block that was placed has its center farther
\* than 1.0 from the position clicked from.
C16_CollisionCheckAtRayOrigin ==
    (lastClick.kind = "voxel" /\ lastClick.tool = "BLOCK") =>
       /\ lastClick.cameraPos = lastClick.rayOrigin
       /\ gridData # lastClick.gridBefore =>
             len(sub(CellCenter(add(lastClick.pos, lastClick.normal)),
                     lastClick.rayOrigin)) > Unit

\* C16, the failing run: a frame moved the camera, the click came before the
\* render that follows the frame, and the block was placed with its center
\* within 1.0 of the position clicked from
C16_BlockPlacedAtThePlayer ==
    /\ lastClick.kind = "voxel" /\ lastClick.tool = "BLOCK"
    /\ lastClick.cameraPos # lastClick.rayOrigin
    /\ gridData # lastClick.gridBefore
    /\ len(sub(CellCenter(add(lastClick.pos, lastClick.normal)),
               lastClick.rayOrigin)) <= Unit

----------------------------------------------------------------------------
(* Specification of the traversals: one ray, one implementation, followed *)
(* iteration by iteration *)

InitDDA ==
    /\ AppStart(ConstructionPose)
    /\ sphereCall = IdleSphere
    /\ scene = IdleScene
    /\ gfx = IdleGfx
    /\ DdaInit

NextDDA == DdaCpuStep \/ DdaGpuStep \/ DdaShadowStep

SpecDDA == InitDDA /\ [][NextDDA]_vars


----------------------------------------------------------------------------
(* Claims about the traversals, checked under SpecDDA *)

\* the ray of C6: origin (8.5, 10, 8.5), straight down, only (8,0,8) occupied
C6_Ray ==
    /\ dda.impl = "cpu"
    /\ dda.grid = "single"
    /\ dda.ro = P(170, 200, 170)
    /\ dda.rd = DirDown

\* C6 (as the code has it): the CPU traversal of that ray ends in a hit at
\* cell (8,0,8), id 9, with normal (0,1,0), at distance 9: the ray enters the
\* voxel through its top face y = 1, nine units below the origin.
C6_HitFromAboveAtNine ==
    (C6_Ray /\ dda.s.status # "run") =>
        /\ dda.s.status = "hit"
        /\ dda.s.cell = <<8, 0, 8>>
        /\ dda.s.voxelId = 9
        /\ dda.s.normal = <<0, 1, 0>>
        /\ dda.s.dist = 9 * Unit

\* C6, reached: the traversal of that ray has returned its hit
C6_RayHasHit == C6_Ray /\ dda.s.status = "hit"

\* C6 as stated: same hit, with a distance of approximately 10 (within a
\* tenth of a unit)
C6_HitAtAboutTen ==
    (C6_Ray /\ dda.s.status # "run") =>
        /\ dda.s.status = "hit"
        /\ dda.s.cell = <<8, 0, 8>>
        /\ dda.s.normal = <<0, 1, 0>>
        /\ Abs(dda.s.dist - 10 * Unit) <= Unit \div 10

\* C8 as stated: in a CPU traversal, for every axis whose direction component
\* is exactly zero, deltaDist and sideDist are finite (never Infinity, never
\* NaN) and the current cell keeps the origin's coordinate on that axis.
C8_ZeroAxisFiniteAndStill ==
    dda.impl = "cpu" =>
        \A k \in 1..3 :
            dda.rd[k] = 0 =>
                /\ IsFinite(dda.s.deltaDist[k])
                /\ IsFinite(dda.s.sideDist[k])
                /\ dda.s.cell[k] = Floor(dda.ro[k])

\* C8, the failure that matters: a CPU traversal has moved its cell along an
\* axis on which the direction is exactly zero
C8_AdvancedAlongZeroAxis ==
    /\ dda.impl = "cpu"
    /\ \E k \in 1..3 : dda.rd[k] = 0 /\ dda.s.cell[k] # Floor(dda.ro[k])

\* C9: whatever the implementation (CPU, GPU primary, GPU shadow), an
\* iteration that reads the grid reads it at a cell with 0 <= x, y, z < 32,
\* that is at a flat index in [0, 32^3).
C9_SamplesInsideGrid ==
    dda.s.sampled # NoCell =>
        /\ \A k \in 1..3 : dda.s.sampled[k] >= 0 /\ dda.s.sampled[k] < GRID_SIZE
        /\ Idx(dda.s.sampled) >= 0
        /\ Idx(dda.s.sampled) < GRID_SIZE * GRID_SIZE * GRID_SIZE

\* C9, reached: a traversal that was reading the grid has stepped out of it,
\* and the iteration it then ran read nothing
C9_SkippedSampleOutside ==
    /\ dda.s.status = "run"
    /\ dda.s.i > 1
    /\ dda.s.sampled = NoCell
    /\ CpuInBounds(<<Floor(dda.ro[1]), Floor(dda.ro[2]), Floor(dda.ro[3])>>,
                   GRID_SIZE)


\* the traversal is in its loop and two or three sideDist are equal and
\* minimal
C17_TieXY ==
    /\ dda.s.status = "run" /\ IsFinite(dda.s.sideDist[1])
    /\ dda.s.sideDist[1] = dda.s.sideDist[2]
    /\ FGt(dda.s.sideDist[3], dda.s.sideDist[1])
C17_TieXZ ==
    /\ dda.s.status = "run" /\ IsFinite(dda.s.sideDist[1])
    /\ dda.s.sideDist[1] = dda.s.sideDist[3]
    /\ FGt(dda.s.sideDist[2], dda.s.sideDist[1])
C17_TieYZ ==
    /\ dda.s.status = "run" /\ IsFinite(dda.s.sideDist[2])
    /\ dda.s.sideDist[2] = dda.s.sideDist[3]
    /\ FGt(dda.s.sideDist[1], dda.s.sideDist[2])
C17_TieXYZ ==
    /\ dda.s.status = "run" /\ IsFinite(dda.s.sideDist[1])
    /\ dda.s.sideDist[1] = dda.s.sideDist[2]
    /\ dda.s.sideDist[2] = dda.s.sideDist[3]

\* the iteration advanced, and along axis k
C17_Advanced == dda'.s.i = dda.s.i + 1
C17_Stepped(k) ==
    /\ C17_Advanced
    /\ dda'.s.cell = [dda.s.cell EXCEPT ![k] = @ + dda.s.step[k]]

\* C17 (as the code has it): in the CPU traversal, the shader's traversal and
\* its shadow traversal alike, X is advanced only when its sideDist is
\* strictly less than both others; a tie that Z takes part in (with X, with
\* Y, or three-way) advances Z, and a tie between X and Y, Z being farther,
\* advances Y.
C17_ZThenYWinTies ==
    [][/\ (C17_Advanced /\ (C17_TieXZ \/ C17_TieYZ \/ C17_TieXYZ))
             => C17_Stepped(3)
       /\ (C17_Advanced /\ C17_TieXY) => C17_Stepped(2)
       /\ (dda.impl # "none" /\ C17_Stepped(1)) =>
             /\ FLt(dda.s.sideDist[1], dda.s.sideDist[2])
             /\ FLt(dda.s.sideDist[1], dda.s.sideDist[3])]_vars

\* C17, reached: a traversal has just advanced Y at a distance that is also
\* X's pending sideDist, Z's being farther: Y won a tie with X
C17_YAdvancedOnTieWithX ==
    /\ dda.impl \in {"cpu", "gpu"}
    /\ dda.s.i >= 1
    /\ dda.s.normal[2] # 0
    /\ IsFinite(dda.s.dist)
    /\ dda.s.sideDist[1] = dda.s.dist
    /\ FGt(dda.s.sideDist[3], dda.s.dist)

\* Z has just been advanced at a distance that is also X's and Y's pending
\* sideDist: Z won a three-way tie
C17_ZAdvancedOnThreeWayTie ==
    /\ dda.impl \in {"cpu", "gpu"}
    /\ dda.s.i >= 1
    /\ dda.s.normal[3] # 0
    /\ IsFinite(dda.s.dist)
    /\ dda.s.sideDist[1] = dda.s.dist
    /\ dda.s.sideDist[2] = dda.s.dist

\* C17 as stated: on a tie of minimal sideDist, the CPU and the GPU traversal
\* advance X whenever X takes part in the tie, and Z on a tie between Y and
\* Z.
C17_XThenZWinTies ==
    [][(dda.impl \in {"cpu", "gpu"} /\ C17_Advanced) =>
          /\ (C17_TieXY \/ C17_TieXZ \/ C17_TieXYZ) => C17_Stepped(1)
          /\ C17_TieYZ => C17_Stepped(3)]_vars

----------------------------------------------------------------------------
(* Specification of the sphere intersection: one ray and one sphere, given *)
(* to the CPU function and to the shader's function *)

\* the central sphere of the shader, and light markers with the radius the
\* pick resolver (0.2) and the shader (0.15) give them
Spheres ==
    {[center |-> <<16 * Unit, 6 * Unit, 16 * Unit>>, radius |-> 4 * Unit],
     [center |-> <<16 * Unit, 12 * Unit, 16 * Unit>>, radius |-> Unit \div 5],
     [center |-> <<16 * Unit, 12 * Unit, 16 * Unit>>, radius |-> Num(3, 20)],
     [center |-> <<8 * Unit, 5 * Unit, 8 * Unit>>, radius |-> Unit \div 5]}

\* the origins of the traversals and (16,6,16), (16,6,10), (16,20,16), (16,5,14)
SphereOrigins ==
    RayOrigins \cup {P(320, 120, 320), P(320, 120, 200), P(320, 400, 320),
                     P(320, 100, 280)}

InitSphere ==
    /\ AppStart(ConstructionPose)
    /\ dda = IdleDda
    /\ scene = IdleScene
    /\ gfx = IdleGfx
    /\ \E ro \in SphereOrigins, rd \in RayDirs, sp \in Spheres :
          sphereCall = [pc |-> "call", ro |-> ro, rd |-> rd,
                        center |-> sp.center, radius |-> sp.radius,
                        cpuDone |-> FALSE, cpu |-> 0,
                        glslDone |-> FALSE, glsl |-> 0]

SphereCpu ==
    /\ sphereCall.pc = "call" /\ ~sphereCall.cpuDone
    /\ sphereCall' =
          [sphereCall EXCEPT
              !.cpuDone = TRUE,
              !.cpu = intersectSphere(sphereCall.ro, sphereCall.rd,
                                      sphereCall.center, sphereCall.radius)]
    /\ UNCHANGED <<appVars, dda, scene, gfx>>

SphereGlsl ==
    /\ sphereCall.pc = "call" /\ ~sphereCall.glslDone
    /\ sphereCall' =
          [sphereCall EXCEPT
              !.glslDone = TRUE,
              !.glsl = glsl_intersectSphere(sphereCall.ro, sphereCall.rd,
                                            sphereCall.center,
                                            sphereCall.radius)]
    /\ UNCHANGED <<appVars, dda, scene, gfx>>

NextSphere == SphereCpu \/ SphereGlsl

SpecSphere == InitSphere /\ [][NextSphere]_vars

\* the quantities of the spec's formula on the call at hand
SphereB == dot(sub(sphereCall.ro, sphereCall.center), sphereCall.rd)
SphereC ==
    dot(sub(sphereCall.ro, sphereCall.center),
        sub(sphereCall.ro, sphereCall.center))
      - MulU(sphereCall.radius, sphereCall.radius)
SphereH == MulU(SphereB, SphereB) - SphereC
SphereOriginInside == SphereC < 0
SphereOriginOutside == SphereC > 0
SphereAimedAtCenter ==
    scale(sphereCall.rd, len(sub(sphereCall.center, sphereCall.ro)))
        = sub(sphereCall.center, sphereCall.ro)

\* C4 as stated: the two functions report a hit on the same calls (the shader
\* takes a result > 0 as a hit) with the same distance, and for an origin
\* inside the sphere the shader's result is the positive far root.
C4_CpuAndGlslSphereAgree ==
    (sphereCall.pc = "call" /\ sphereCall.cpuDone /\ sphereCall.glslDone) =>
        /\ (sphereCall.cpu # Null) <=> (sphereCall.glsl > 0)
        /\ sphereCall.cpu # Null => sphereCall.glsl = sphereCall.cpu
        /\ SphereOriginInside =>
              /\ sphereCall.glsl = (0 - SphereB) + Sqrt(SphereH)
              /\ sphereCall.glsl > 0

\* C4, the failing call: origin inside the sphere, both functions have
\* returned, the CPU a hit and the shader a value it takes as a miss
C4_InsideCpuHitsGlslMisses ==
    /\ sphereCall.pc = "call" /\ sphereCall.cpuDone /\ sphereCall.glslDone
    /\ SphereOriginInside
    /\ sphereCall.cpu # Null
    /\ sphereCall.glsl <= 0

\* C5: the CPU function returns no hit when h < 0; else the near root
\* -b - sqrt(h) if it is > 0; else the far root -b + sqrt(h) if it is > 0;
\* else no hit.  So for an origin outside the sphere, aimed at the center, the
\* result is the distance to the surface (to the rounding of one unit), and
\* for an origin strictly inside it is the far root and positive.
C5_NearRootThenFarRoot ==
    (sphereCall.pc = "call" /\ sphereCall.cpuDone) =>
        /\ sphereCall.cpu =
              (IF SphereH < 0 THEN Null
               ELSE IF (0 - SphereB) - Sqrt(SphereH) > 0
               THEN (0 - SphereB) - Sqrt(SphereH)
               ELSE IF (0 - SphereB) + Sqrt(SphereH) > 0
               THEN (0 - SphereB) + Sqrt(SphereH)
               ELSE Null)
        /\ (SphereOriginOutside /\ SphereAimedAtCenter) =>
              Abs(sphereCall.cpu
                  - (len(sub(sphereCall.ro, sphereCall.center))
                     - sphereCall.radius)) <= 1
        /\ SphereOriginInside =>
              /\ sphereCall.cpu = (0 - SphereB) + Sqrt(SphereH)
              /\ sphereCall.cpu > 0

\* C5, reached: the CPU function has answered a call whose origin is strictly
\* inside the sphere with a positive distance
C5_InsideCallAnswered ==
    /\ sphereCall.pc = "call" /\ sphereCall.cpuDone
    /\ SphereOriginInside
    /\ sphereCall.cpu > 0


----------------------------------------------------------------------------
(* Fragment shader map(): what a ray of the renderer resolves to.  matID is *)
(* 0 background, 1 voxel, 2 central sphere, 3 light marker, 4 mirror voxel; *)
(* colorID is -1 while the shader has not assigned it.  The normal is left  *)
(* out.                                                                     *)

RECURSIVE MapLights(_, _, _, _, _)
MapLights(ro, rd, lts, i, hit) ==
    IF i >= MaxLights \/ i >= Len(lts) THEN hit
    ELSE LET lT == glsl_intersectSphere(ro, rd, lts[i + 1].position,
                                        Num(3, 20))
         IN MapLights(ro, rd, lts, i + 1,
                      IF lT > 0 /\ FLt(lT, hit.t)
                      THEN [t |-> lT, matID |-> 3, colorID |-> i]
                      ELSE hit)

\* map() tagging every voxel hit as diffuse
map_NoMirrorTag(ro, rd, grid, lts, sphereOn, maxSteps) ==
    LET vHit == glsl_intersectVoxels(ro, rd, grid, maxSteps)
        h0 == [t |-> MAX_DIST * Unit, matID |-> 0, colorID |-> -1]
        h1 == IF FGt(vHit.t, 0) /\ FLt(vHit.t, h0.t)
              THEN [t |-> vHit.t, matID |-> 1, colorID |-> vHit.id]
              ELSE h0
        sT == glsl_intersectSphere(ro, rd, <<16 * Unit, 6 * Unit, 16 * Unit>>,
                                   4 * Unit)
        h2 == IF sphereOn /\ sT > 0 /\ FLt(sT, h1.t)
              THEN [h1 EXCEPT !.t = sT, !.matID = 2]
              ELSE h1
    IN MapLights(ro, rd, lts, 0, h2)

map(ro, rd, grid, lts, sphereOn, maxSteps) ==
    LET vHit == glsl_intersectVoxels(ro, rd, grid, maxSteps)
        h0 == [t |-> MAX_DIST * Unit, matID |-> 0, colorID |-> -1]
        h1 == IF FGt(vHit.t, 0) /\ FLt(vHit.t, h0.t)
              THEN [t |-> vHit.t,
                    matID |-> IF vHit.id = MIRROR_ID THEN 4 ELSE 1,
                    colorID |-> vHit.id]
              ELSE h0
        sT == glsl_intersectSphere(ro, rd, <<16 * Unit, 6 * Unit, 16 * Unit>>,
                                   4 * Unit)
        h2 == IF sphereOn /\ sT > 0 /\ FLt(sT, h1.t)
              THEN [h1 EXCEPT !.t = sT, !.matID = 2]
              ELSE h1
    IN MapLights(ro, rd, lts, 0, h2)

----------------------------------------------------------------------------
(* Specification of a scene: one ray against a grid and a lights          *)
(* collection, resolved by the pick resolver (CPU) and by map() (shader)  *)

MakeLight(pos) ==
    [position |-> pos, color |-> PALETTE(0), radius |-> 2 * Unit,
     intensity |-> 2 * Unit]

\* the initial lights, then lights the Light tool placed: one under the floor
\* cell (8,0,8), at (8.5,-0.5,8.5), and two in the cell (16,1,16)
EditedLights ==
    InitialLights \o << MakeLight(P(170, -10, 170)),
                        MakeLight(P(330, 30, 330)),
                        MakeLight(P(330, 30, 330)) >>

SceneLights(name) == IF name = "initial" THEN InitialLights ELSE EditedLights

\* rays: straight up from (16,8,16); along +z from (16,12,-100) and from
\* (16,12,10.5); straight down from (8.5,10,8.5); the camera's ray at pitch
\* -0.644 rad from (16.5,3.5,14); the diagonal from (0.5,0.5,0.5); the ray of
\* the constructed camera; along +z from outside the grid; straight down
\* from (16.5,12.5,16.5) onto the central sphere and the floor under it
SceneRays ==
    {<<P(320, 160, 320), DirUp>>,
     <<P(320, 240, -2000), DirZ>>,
     <<P(320, 240, 210), DirZ>>,
     <<P(170, 200, 170), DirDown>>,
     <<P(330, 70, 280), CamDir([yaw |-> 0, pitch |-> -322])>>,
     <<P(10, 10, 10), DirDiag>>,
     <<ConstructionPose.pos, CamDir(ConstructionPose.angle)>>,
     <<P(330, 10, -50), DirZ>>,
     <<P(330, 250, 330), DirDown>>}

InitScene ==
    /\ AppStart(ConstructionPose)
    /\ dda = IdleDda
    /\ sphereCall = IdleSphere
    /\ gfx = IdleGfx
    /\ \E ray \in SceneRays, g \in GridNames \cup {"offpath", "mirror"},
          l \in {"initial", "edited"}, sp \in BOOLEAN, q \in QualityModes :
          scene = [pc |-> "ray", ro |-> ray[1], rd |-> ray[2], grid |-> g,
                   lights |-> l, showSphere |-> sp, quality |-> q,
                   picked |-> FALSE,
                   pick |-> [kind |-> "none", lightIdx |-> -1, hit |-> NoHit],
                   cpuHit |-> NoHit,
                   onLightClick |-> 0, onBlockAction |-> 0,
                   mapped |-> FALSE,
                   voxelHit |-> [t |-> 0, normal |-> <<0, 0, 0>>, id |-> 0,
                                 pos |-> <<0, 0, 0>>],
                   map |-> [t |-> 0, matID |-> 0, colorID |-> -1]]

\* a click: performRaycastAction on the ray
ScenePick ==
    /\ scene.pc = "ray" /\ ~scene.picked
    /\ LET target == PickTarget(scene.ro, scene.rd, SceneLights(scene.lights),
                                TestGrid(scene.grid))
       IN scene' = [scene EXCEPT
                       !.picked = TRUE,
                       !.pick = target,
                       !.cpuHit = intersectVoxels(scene.ro, scene.rd,
                                                  TestGrid(scene.grid),
                                                  GRID_SIZE),
                       !.onLightClick = IF target.kind = "light" THEN 1 ELSE 0,
                       !.onBlockAction = IF target.kind = "voxel" THEN 1 ELSE 0]
    /\ UNCHANGED <<appVars, sphereCall, dda, gfx>>

\* a pixel: the shader's intersectVoxels and map() on the ray
SceneMap ==
    /\ scene.pc = "ray" /\ ~scene.mapped
    /\ scene' = [scene EXCEPT
                    !.mapped = TRUE,
                    !.voxelHit =
                        glsl_intersectVoxels(scene.ro, scene.rd,
                                             TestGrid(scene.grid),
                                             getQualityConfig(scene.quality).maxSteps),
                    !.map = map(scene.ro, scene.rd, TestGrid(scene.grid),
                                SceneLights(scene.lights), scene.showSphere,
                                getQualityConfig(scene.quality).maxSteps)]
    /\ UNCHANGED <<appVars, sphereCall, dda, gfx>>

NextScene == ScenePick \/ SceneMap

SpecScene == InitScene /\ [][NextScene]_vars


----------------------------------------------------------------------------
(* Claims about a scene, checked under SpecScene *)

SceneBothDone == scene.pc = "ray" /\ scene.picked /\ scene.mapped

SceneOriginInGrid ==
    CpuInBounds(<<Floor(scene.ro[1]), Floor(scene.ro[2]), Floor(scene.ro[3])>>,
                GRID_SIZE)

\* C3 as stated: for an origin within the grid, whatever the quality preset,
\* the CPU traversal and the shader's traversal both miss, or both hit the
\* same cell at the same distance with the same normal.
C3_CpuAndGlslTraversalAgree ==
    (SceneBothDone /\ SceneOriginInGrid) =>
        /\ scene.cpuHit.hit <=> (scene.voxelHit.id # 0)
        /\ scene.cpuHit.hit =>
              /\ scene.cpuHit.pos = scene.voxelHit.pos
              /\ scene.cpuHit.t = scene.voxelHit.t
              /\ scene.cpuHit.normal = scene.voxelHit.normal

\* C3, the failing scene: from an origin within the grid the shader hits a
\* voxel that the CPU traversal, out of iterations, misses
C3_GlslHitsCpuMisses ==
    /\ SceneBothDone /\ SceneOriginInGrid
    /\ scene.voxelHit.id # 0
    /\ ~scene.cpuHit.hit

\* the ray of C7: from (16,8,16) straight up, towards the light at
\* (16,12,16), the first light of both collections; no grid of the model has
\* an occupied cell in the column x = 16, z = 16 above y = 0
C7_Ray ==
    /\ scene.pc = "ray"
    /\ scene.ro = P(320, 160, 320)
    /\ scene.rd = DirUp

\* C7 as stated: on that ray, for either value of the show-sphere flag, map()
\* tags the hit LightMarker (matID 3) with the light's index 0, and the pick
\* resolver targets light 0.
C7_RayResolvesToLight ==
    C7_Ray =>
        /\ scene.mapped => (scene.map.matID = 3 /\ scene.map.colorID = 0)
        /\ scene.picked => (scene.pick.kind = "light" /\ scene.pick.lightIdx = 0)

\* C7, the failing scene: the click on that ray targets a voxel, the block
\* at (16,8,12), which the ray does not pass through
C7_ClickTargetsOffPathVoxel ==
    /\ C7_Ray /\ scene.picked
    /\ scene.pick.kind = "voxel"
    /\ scene.pick.hit.pos = <<16, 8, 12>>

\* the pick rule, computed on the scene from the two intersection functions
PickLightT(i) ==
    intersectSphere(scene.ro, scene.rd,
                    SceneLights(scene.lights)[i + 1].position, Unit \div 5)
PickLightHits ==
    {i \in 0..(Len(SceneLights(scene.lights)) - 1) :
        PickLightT(i) # Null /\ PickLightT(i) > 0}
PickVoxelDist == IF scene.cpuHit.hit THEN scene.cpuHit.t ELSE 1000 * Unit

\* the lights in reach: a positive hit distance below 100
PickLightsInReach == {i \in PickLightHits : PickLightT(i) < 100 * Unit}
\* the nearest of them, the lowest index among equals
PickNearestInReach ==
    CHOOSE i \in PickLightsInReach :
        \A j \in PickLightsInReach :
            \/ PickLightT(i) < PickLightT(j)
            \/ (PickLightT(i) = PickLightT(j) /\ i <= j)

\* C10 (as the code has it): the click targets light i exactly when i is the
\* light with the smallest positive marker hit distance below 100 (the lowest
\* index among equally near ones) and that distance compares strictly less
\* than the voxel hit distance, a voxel miss counting as 1000; otherwise, if
\* the traversal hit, it targets the hit's cell and normal; otherwise nothing.
\* One action at most is invoked.
C10_NearestLightInReachElseVoxel ==
    (scene.pc = "ray" /\ scene.picked) =>
        /\ scene.pick.kind = "light" <=>
              /\ PickLightsInReach # {}
              /\ FLt(PickLightT(PickNearestInReach), PickVoxelDist)
        /\ scene.pick.kind = "light" =>
              scene.pick.lightIdx = PickNearestInReach
        /\ scene.pick.kind # "light" =>
              IF scene.cpuHit.hit
              THEN /\ scene.pick.kind = "voxel"
                   /\ scene.pick.hit.pos = scene.cpuHit.pos
                   /\ scene.pick.hit.normal = scene.cpuHit.normal
              ELSE scene.pick.kind = "none"
        /\ scene.onLightClick + scene.onBlockAction <= 1
        /\ scene.onLightClick = 1 <=> scene.pick.kind = "light"
        /\ scene.onBlockAction = 1 <=> scene.pick.kind = "voxel"

\* C10, reached: two lights are equally near and nearer than the voxel the
\* ray hits, and the click went to the first of them
C10_LightBeforeVoxelPicked ==
    /\ scene.pc = "ray" /\ scene.picked
    /\ scene.cpuHit.hit
    /\ scene.pick.kind = "light"
    /\ \E j \in PickLightsInReach :
          /\ j # scene.pick.lightIdx
          /\ PickLightT(j) = PickLightT(scene.pick.lightIdx)

\* C10 as stated: a light is targeted exactly when some light has a positive
\* hit distance and the smallest such distance is strictly less than the voxel
\* hit distance (always, on a voxel miss), and the targeted light is one with
\* that smallest distance; otherwise the voxel if hit, otherwise nothing.
C10_NearestLightElseVoxel ==
    (scene.pc = "ray" /\ scene.picked) =>
        /\ scene.pick.kind = "light" <=>
              \E i \in PickLightHits :
                 /\ \A j \in PickLightHits : PickLightT(i) <= PickLightT(j)
                 /\ (scene.cpuHit.hit => PickLightT(i) < scene.cpuHit.t)
        /\ scene.pick.kind = "light" =>
              /\ scene.pick.lightIdx \in PickLightHits
              /\ \A j \in PickLightHits :
                    PickLightT(scene.pick.lightIdx) <= PickLightT(j)
        /\ scene.pick.kind # "light" =>
              IF scene.cpuHit.hit
              THEN /\ scene.pick.kind = "voxel"
                   /\ scene.pick.hit.pos = scene.cpuHit.pos
                   /\ scene.pick.hit.normal = scene.cpuHit.normal
              ELSE scene.pick.kind = "none"
        /\ scene.onLightClick + scene.onBlockAction <= 1

\* The candidates of map() on the scene's ray, each with the distance the
\* shader's own intersection function reports, when that is positive: the
\* voxel traversal's hit (rank 0), the central sphere when it is shown
\* (rank 1), the marker sphere, radius 0.15, of light i (rank 2 + i).
C22_SphereT ==
    glsl_intersectSphere(scene.ro, scene.rd,
                         <<16 * Unit, 6 * Unit, 16 * Unit>>, 4 * Unit)
C22_LightT(i) ==
    glsl_intersectSphere(scene.ro, scene.rd,
                         SceneLights(scene.lights)[i + 1].position, Num(3, 20))
C22_Candidates ==
    {[t |-> scene.voxelHit.t,
      matID |-> IF scene.voxelHit.id = 100 THEN 4 ELSE 1,
      colorID |-> scene.voxelHit.id, rank |-> 0] :
        x \in IF FGt(scene.voxelHit.t, 0) THEN {0} ELSE {}}
    \cup {[t |-> C22_SphereT, matID |-> 2, colorID |-> -1, rank |-> 1] :
            x \in IF scene.showSphere /\ C22_SphereT > 0 THEN {0} ELSE {}}
    \cup {[t |-> C22_LightT(i), matID |-> 3, colorID |-> i, rank |-> 2 + i] :
            i \in {j \in 0..(Len(SceneLights(scene.lights)) - 1) :
                      C22_LightT(j) > 0}}
C22_InReach == {c \in C22_Candidates : c.t < MAX_DIST * Unit}

\* C22, amended: map() returns the candidate with the smallest positive
\* distance below MAX_DIST = 100 (on equal distances the voxel hit before the
\* central sphere before the lights, a light of lower index before one of
\* higher index), tagged VoxelMirror exactly when the voxel id is 100,
\* VoxelDiffuse for any other id, SphereMirror for the central sphere,
\* LightMarker with colorRef the light's index; with no such candidate it
\* returns material None and the distance MAX_DIST.
C22_NearestCandidateInReach ==
    (scene.pc = "ray" /\ scene.mapped) =>
        IF C22_InReach = {}
        THEN scene.map.matID = 0 /\ scene.map.t = MAX_DIST * Unit
        ELSE \E c \in C22_InReach :
                /\ \A d \in C22_InReach :
                      c.t < d.t \/ (c.t = d.t /\ c.rank <= d.rank)
                /\ scene.map.t = c.t
                /\ scene.map.matID = c.matID
                /\ c.matID # 2 => scene.map.colorID = c.colorID

\* C22, reached: a mirror voxel was returned, tagged VoxelMirror, with a
\* light's marker farther along the ray
C22_MirrorVoxelBeforeMarker ==
    /\ scene.pc = "ray" /\ scene.mapped
    /\ scene.map.matID = 4 /\ scene.map.colorID = MIRROR_ID
    /\ \E c \in C22_InReach : c.matID = 3 /\ c.t > scene.map.t

\* the central sphere was returned, nearer than the voxel hit
C22_SphereBeforeVoxel ==
    /\ scene.pc = "ray" /\ scene.mapped
    /\ scene.map.matID = 2
    /\ \E c \in C22_InReach : c.rank = 0 /\ c.t > scene.map.t

\* of two equally near markers the one of lower index was returned
C22_LowerIndexOnTie ==
    /\ scene.pc = "ray" /\ scene.mapped
    /\ scene.map.matID = 3
    /\ \E c \in C22_InReach :
          c.matID = 3 /\ c.t = scene.map.t /\ c.colorID > scene.map.colorID

\* a marker at distance 100 or more is the only candidate, and map()
\* returned None
C22_FarMarkerNotReturned ==
    /\ scene.pc = "ray" /\ scene.mapped
    /\ scene.map.matID = 0
    /\ C22_Candidates # {} /\ C22_InReach = {}

\* C22 as stated: map() returns the candidate with the smallest positive
\* distance among the voxel traversal hit, the central sphere (when shown)
\* and the marker spheres of the lights, with the tag of that candidate, and
\* material None when no candidate has a positive distance.
C22_NearestPositiveCandidate ==
    (scene.pc = "ray" /\ scene.mapped) =>
        IF C22_Candidates = {}
        THEN scene.map.matID = 0
        ELSE \E c \in C22_Candidates :
                /\ \A d \in C22_Candidates : c.t <= d.t
                /\ scene.map.t = c.t
                /\ scene.map.matID = c.matID
                /\ c.matID = 3 => scene.map.colorID = c.colorID


----------------------------------------------------------------------------
(* RayTracerCanvas: the render pipeline.  gfx, once the component is        *)
(* mounted, holds                                                           *)
(*   context, gl      the WebGL2 context was obtained; the gl state holds   *)
(*                    it (setGl is rendered later than it is called)        *)
(*   program          programRef.current: status "none" (null), "linked",   *)
(*                    "unlinked" (linkProgram failed), "deleted"            *)
(*                    (deleteProgram was called on it); quality is the      *)
(*                    level whose constants its fragment shader was built   *)
(*                    with                                                  *)
(*   texture          the 3D texture: loaded, and the grid uploaded last    *)
(*   isPointerLocked  the App state, behind the DOM's pointerLocked until   *)
(*                    the render that follows pointerlockchange             *)
(*   fps, fpsQueued   the App state and the last value given to setFps      *)
(*   loopLive         the last run of the animation loop effect returned    *)
(*                    its cleanup                                           *)
(*   pending          the animation-frame callbacks requested and neither   *)
(*                    run nor cancelled, each with what its closure         *)
(*                    captured; current marks the one requestRef names      *)
(*   now              the clock, ms; lastFpsTime, frameCount: the refs      *)
(*   since, looping   when the running period of continuous rendering       *)
(*                    began or last reported an FPS sample                  *)
(*   lastFrame        the last frame drawn, with the App state of that      *)
(*                    moment; lastReport: the last FPS sample reported      *)
(*   builds, toggles  runs of the program init effect; quality switches     *)
(*   stills           frames drawn by the effects of the last commit        *)

\* the clock of the runs stops at MaxTimeSteps tenths of a second
MaxTimeSteps == 6
MaxToggles == 4

\* time from one animation frame to the next, ms
FrameTimes == {200, 300}

\* canvas.clientWidth, canvas.clientHeight
DisplayWidth == 1365
DisplayHeight == 767

\* what the GL makes of a build: both shaders compile and the program links;
\* createShader returns null; linkProgram leaves the program unlinked
BuildOutcomes == {"ok", "compile_failed", "link_failed"}

NoProgram == [status |-> "none", quality |-> "LOW"]
NoTexture == [loaded |-> FALSE, data |-> InitialGrid]
NoFrame ==
    [kind |-> "none", program |-> NoProgram, texture |-> NoTexture,
     lights |-> InitialLights, width |-> 0, height |-> 0,
     grid |-> InitialGrid, lightsState |-> InitialLights, level |-> "LOW",
     domLocked |-> FALSE, sinceReport |-> 0]
NoReport == [fps |-> 0, at |-> -1, frames |-> 0, elapsed |-> 0]

\* Math.round of n / d, for n >= 0 and d > 0
Round(n, d) == (2 * n + d) \div (2 * d)

\* App toggleQuality
NextQuality(prev) ==
    IF prev = "LOW" THEN "MEDIUM"
    ELSE IF prev = "MEDIUM" THEN "HIGH"
    ELSE IF prev = "HIGH" THEN "ULTRA"
    ELSE "LOW"

\* the committed App state a frame is judged against
AppState(grid, lts, q, dom) ==
    [grid |-> grid, lights |-> lts, quality |-> q, dom |-> dom]

\* the program init effect for quality level q: the context is there (and
\* setGl queued the first time), the old program is deleted, the new one is
\* stored only when both shaders compiled, and stored without a look at
\* LINK_STATUS
ProgramEffect(g, q, outcome) ==
    LET old == IF g.program.status = "none" THEN g.program
               ELSE [g.program EXCEPT !.status = "deleted"]
    IN [g EXCEPT !.context = TRUE,
                 !.builds = @ + 1,
                 !.program =
                    IF outcome = "ok"
                    THEN [status |-> "linked", quality |-> q]
                    ELSE IF outcome = "link_failed"
                    THEN [status |-> "unlinked", quality |-> q]
                    ELSE old]

\* the texture effect uploading only when it creates the texture
TextureEffect_OnCreateOnly(g, grid) ==
    IF ~g.gl \/ g.texture.loaded THEN g
    ELSE [g EXCEPT !.texture = [loaded |-> TRUE, data |-> grid]]

\* the texture effect: texImage3D of the whole gridData
TextureEffect(g, grid) ==
    IF ~g.gl THEN g
    ELSE [g EXCEPT !.texture = [loaded |-> TRUE, data |-> grid]]

\* render(time) of the callback made in a render with lights lts and quality
\* level q; st is the App state at the time of the call
render(g, time, kind, lts, q, st) ==
    IF ~g.gl \/ g.program.status = "none" THEN g
    ELSE [g EXCEPT
            !.stills = IF kind = "still" THEN @ + 1 ELSE @,
            !.lastFrame =
               [kind |-> kind, program |-> g.program,
                texture |-> g.texture, lights |-> lts,
                width |-> (DisplayWidth * getQualityConfig(q).scale) \div 100,
                height |-> (DisplayHeight * getQualityConfig(q).scale) \div 100,
                grid |-> st.grid, lightsState |-> st.lights,
                level |-> st.quality, domLocked |-> st.dom,
                sinceReport |-> time - g.since]]

\* requestRef.current = requestAnimationFrame(loop), loop being the closure
\* of an effect run with isPointerLocked true
Request(g, lts, q) ==
    [g EXCEPT !.pending =
        {[c EXCEPT !.current = FALSE] : c \in g.pending}
           \cup {[current |-> TRUE, locked |-> TRUE, lights |-> lts,
                  quality |-> q]}]

\* the cleanup of the animation loop effect: cancelAnimationFrame of
\* requestRef.current
LoopCleanup(g) ==
    IF g.loopLive THEN [g EXCEPT !.pending = {c \in @ : ~c.current}] ELSE g

\* the animation loop effect, in a render with isPointerLocked = locked
LoopEffect(g, locked, lts, q, st) ==
    IF ~g.gl \/ g.program.status = "none"
    THEN [g EXCEPT !.loopLive = FALSE, !.looping = FALSE]
    ELSE IF locked
    THEN [Request(g, lts, q) EXCEPT
            !.loopLive = TRUE, !.lastFpsTime = g.now, !.frameCount = 0,
            !.since = IF g.looping THEN @ ELSE g.now, !.looping = TRUE]
    ELSE [render(g, g.now, "still", lts, q, st) EXCEPT
            !.loopLive = TRUE, !.looping = FALSE]

\* the effects of a commit: the cleanups, then the program init effect when
\* qualityMode changed, the texture effect when gl or gridData changed, and
\* the animation loop effect, whose dependency render is new in every render
\* (config is a new object each time)
RunEffects(g, qualityChanged, textureChanged, st, outcome) ==
    LET g1 == LoopCleanup([g EXCEPT !.stills = 0])
        g2 == IF qualityChanged THEN ProgramEffect(g1, st.quality, outcome)
              ELSE g1
        g3 == IF textureChanged THEN TextureEffect(g2, st.grid) ELSE g2
    IN LoopEffect(g3, g.isPointerLocked, st.lights, st.quality, st)

\* the component after its first render and effects: the program init effect
\* has run for LOW; gl is still null in the texture and loop effects
Mounted(outcome) ==
    ProgramEffect(
       [pc |-> "mounted", context |-> FALSE, gl |-> FALSE,
        program |-> NoProgram, texture |-> NoTexture,
        isPointerLocked |-> FALSE, fps |-> 0, fpsQueued |-> 0,
        loopLive |-> FALSE, pending |-> {}, now |-> 0, lastFpsTime |-> 0,
        frameCount |-> 0, since |-> 0, looping |-> FALSE,
        lastFrame |-> NoFrame, lastReport |-> NoReport, builds |-> 0,
        toggles |-> 0, stills |-> 0],
       "LOW", outcome)

\* the keys a frame of these runs may find: none down, or forward
NoKeys == [forward |-> 0, right |-> 0, up |-> 0, shift |-> FALSE]
FrameKeys == {NoKeys, [forward |-> 1, right |-> 0, up |-> 0, shift |-> FALSE]}

\* loop(time): an animation-frame callback runs
Frame ==
    /\ gfx.pc = "mounted"
    /\ \E c \in gfx.pending, dt \in FrameTimes, k \in FrameKeys :
          /\ gfx.now + dt <= MaxTimeSteps * 100
          /\ k # NoKeys => nFrames < MaxFrames
          /\ LET time == gfx.now + dt
                 count == gfx.frameCount + 1
                 report == time - gfx.lastFpsTime >= 500
                 g0 == [gfx EXCEPT !.now = time, !.pending = @ \ {c}]
                 g1 == IF report
                       THEN [g0 EXCEPT
                               !.fpsQueued =
                                  Round(count * 1000, time - gfx.lastFpsTime),
                               !.frameCount = 0,
                               !.lastFpsTime = time,
                               !.since = time,
                               !.lastReport =
                                  [fps |-> Round(count * 1000,
                                                 time - gfx.lastFpsTime),
                                   at |-> time, frames |-> count,
                                   elapsed |-> time - gfx.since]]
                       ELSE [g0 EXCEPT !.frameCount = count]
                 g2 == render(g1, time, "loop", c.lights, c.quality,
                              AppState(gridData, lights, qualityMode,
                                       pointerLocked))
             IN /\ gfx' = IF c.locked THEN Request(g2, c.lights, c.quality)
                          ELSE g0
                /\ cameraPosRef' =
                      IF c.locked /\ k # NoKeys
                      THEN NewPos(cameraPosRef, cameraAngleRef.yaw, k)
                      ELSE cameraPosRef
                /\ nFrames' = IF c.locked /\ k # NoKeys THEN nFrames + 1
                              ELSE nFrames
    /\ UNCHANGED <<gridData, lights, cameraPos, cameraAngle, tool,
                   selectedColorIdx, isMirrorSelected, showSphere, qualityMode,
                   cameraAngleRef, pointerLocked, nClicks, nMouseMoves,
                   lastClick, roundTrip, sphereCall, dda, scene>>

\* the render that follows the state updates queued outside React's click
\* handlers (setGl, setIsPointerLocked, setCameraPos / setCameraAngle,
\* setFps), with its effects
Commit ==
    /\ gfx.pc = "mounted"
    /\ \/ gfx.context /\ ~gfx.gl
       \/ gfx.isPointerLocked # pointerLocked
       \/ gfx.fps # gfx.fpsQueued
       \/ cameraPos # cameraPosRef
       \/ cameraAngle # cameraAngleRef
    /\ cameraPos' = cameraPosRef
    /\ cameraAngle' = cameraAngleRef
    /\ gfx' = RunEffects([gfx EXCEPT !.gl = gfx.context,
                                     !.isPointerLocked = pointerLocked,
                                     !.fps = gfx.fpsQueued],
                         FALSE, gfx.context /\ ~gfx.gl,
                         AppState(gridData, lights, qualityMode, pointerLocked),
                         "ok")
    /\ UNCHANGED <<gridData, lights, tool, selectedColorIdx, isMirrorSelected,
                   showSphere, qualityMode, cameraPosRef, cameraAngleRef,
                   pointerLocked, nClicks, nFrames, nMouseMoves, lastClick,
                   roundTrip, sphereCall, dda, scene>>

\* handleMouseDown under pointer lock, with the render and the effects that
\* follow at once when a handler set state: handleBlockAction always does
\* (setGridData gets a new array), handleLightClick with the Delete tool
EditClick ==
    /\ gfx.pc = "mounted"
    /\ pointerLocked
    /\ nClicks < MaxClicks
    /\ Raycast
    /\ nClicks' = nClicks + 1
    /\ gfx' =
          IF \/ lastClick'.kind = "voxel"
             \/ lastClick'.kind = "light" /\ tool = "DELETE"
          THEN RunEffects(gfx, FALSE, lastClick'.kind = "voxel",
                          AppState(gridData', lights', qualityMode,
                                   pointerLocked),
                          "ok")
          ELSE gfx
    /\ UNCHANGED <<cameraPos, cameraAngle, tool, selectedColorIdx,
                   isMirrorSelected, showSphere, qualityMode, cameraPosRef,
                   cameraAngleRef, pointerLocked, nFrames, nMouseMoves,
                   sphereCall, dda, scene>>

\* Controls onSelectTool, with the render and the effects that follow
ToolSelected ==
    /\ gfx.pc = "mounted"
    /\ \E t \in Tools : t # tool /\ tool' = t
    /\ gfx' = RunEffects(gfx, FALSE, FALSE,
                         AppState(gridData, lights, qualityMode, pointerLocked),
                         "ok")
    /\ UNCHANGED <<gridData, lights, cameraPos, cameraAngle, selectedColorIdx,
                   isMirrorSelected, showSphere, qualityMode, cameraPosRef,
                   cameraAngleRef, pointerLocked, nClicks, nFrames,
                   nMouseMoves, lastClick, roundTrip, sphereCall, dda, scene>>

\* App toggleQuality (the quality button), with the render and the effects
\* that follow: the program is rebuilt, with one of the outcomes
ToggleQuality ==
    /\ gfx.pc = "mounted"
    /\ gfx.toggles < MaxToggles
    /\ qualityMode' = NextQuality(qualityMode)
    /\ \E outcome \in BuildOutcomes :
          gfx' = RunEffects([gfx EXCEPT !.toggles = @ + 1], TRUE, FALSE,
                            AppState(gridData, lights, qualityMode',
                                     pointerLocked),
                            outcome)
    /\ UNCHANGED <<gridData, lights, cameraPos, cameraAngle, tool,
                   selectedColorIdx, isMirrorSelected, showSphere,
                   cameraPosRef, cameraAngleRef, pointerLocked, nClicks,
                   nFrames, nMouseMoves, lastClick, roundTrip, sphereCall,
                   dda, scene>>

\* (16.5,3.5,14) looking down at the floor
RenderPose == [pos |-> P(330, 70, 280), angle |-> [yaw |-> 0, pitch |-> -322]]

InitRender ==
    /\ AppStart(RenderPose)
    /\ sphereCall = IdleSphere
    /\ dda = IdleDda
    /\ scene = IdleScene
    /\ \E outcome \in BuildOutcomes : gfx = Mounted(outcome)

\* the frame loop, pointer lock and the quality switch
NextRender ==
    \/ LockPointer
    \/ ExitPointerLock
    \/ Frame
    \/ Commit
    \/ ToggleQuality

SpecRender == InitRender /\ [][NextRender]_vars

\* the frame loop, pointer lock and the edits
NextUpload ==
    \/ LockPointer
    \/ Frame
    \/ Commit
    \/ EditClick
    \/ ToolSelected

InitUpload ==
    /\ AppStart(RenderPose)
    /\ sphereCall = IdleSphere
    /\ dda = IdleDda
    /\ scene = IdleScene
    /\ gfx = Mounted("ok")

SpecUpload == InitUpload /\ [][NextUpload]_vars

\* frames have been drawn
RenderFrameDrawn == gfx.pc = "mounted" /\ gfx.lastFrame.kind # "none"

----------------------------------------------------------------------------
(* Claims about the render pipeline, checked under SpecRender and SpecUpload *)

\* C12 as stated: when a build of the render program fails, at first
\* initialisation or after a quality change, rendering halts: every frame
\* that is drawn is drawn with a linked program, never with a deleted or an
\* unlinked one.
C12_FramesOnlyWithLinkedProgram ==
    RenderFrameDrawn => gfx.lastFrame.program.status = "linked"

\* C12, the failing run: after a quality change whose build failed, the
\* frame loop draws with the program the effect had deleted
C12_LoopFrameWithDeletedProgram ==
    /\ RenderFrameDrawn
    /\ gfx.lastFrame.kind = "loop"
    /\ gfx.lastFrame.program.status = "deleted"
    /\ gfx.program = gfx.lastFrame.program
    /\ gfx.pending # {}

\* C13: the quality profile depends on the level alone: at LOW it is scale
\* 0.5, maxSteps 64, maxBounces 2, shadowSteps 16, however many switches led
\* there; at ULTRA maxSteps is 1024 and the scale 1.0, both strictly larger
\* than LOW's.
C13_ProfileOfLevel ==
    gfx.pc = "mounted" =>
       /\ qualityMode = "LOW" =>
             getQualityConfig(qualityMode) =
                [scale |-> 50, maxSteps |-> 64, maxBounces |-> 2,
                 shadowSteps |-> 16]
       /\ qualityMode = "ULTRA" =>
             /\ getQualityConfig(qualityMode).maxSteps = 1024
             /\ getQualityConfig(qualityMode).scale = 100
             /\ getQualityConfig(qualityMode).maxSteps >
                   getQualityConfig("LOW").maxSteps
             /\ getQualityConfig(qualityMode).scale >
                   getQualityConfig("LOW").scale

\* C13, reached: four switches, through ULTRA, have led back to LOW
C13_BackAtLow ==
    /\ gfx.pc = "mounted"
    /\ gfx.toggles = 4
    /\ qualityMode = "LOW"

\* C14: every frame is drawn with the texture holding the grid of the App
\* state of that moment, and with that moment's lights: after an edit is
\* committed the whole volume is uploaded before any frame, and no frame has
\* the lights of after an edit with the grid of before it.
C14_FramesSampleCommittedGrid ==
    /\ (gfx.pc = "mounted" /\ gfx.gl) =>
          gfx.texture.loaded /\ gfx.texture.data = gridData
    /\ RenderFrameDrawn =>
          /\ gfx.lastFrame.texture.loaded
          /\ gfx.lastFrame.texture.data = gfx.lastFrame.grid
          /\ gfx.lastFrame.lights = gfx.lastFrame.lightsState

\* C14, reached: the frame loop has drawn a frame after a grid edit and
\* after a lights edit
C14_LoopFrameAfterEdits ==
    /\ RenderFrameDrawn
    /\ gfx.lastFrame.kind = "loop"
    /\ gfx.lastFrame.grid # InitialGrid
    /\ gfx.lastFrame.lightsState # InitialLights

\* C15 as stated: at most one animation-frame callback is pending at any
\* time; once the pointer lock is lost a callback that runs neither renders
\* nor reschedules, so no frame of the loop is drawn without the lock; and
\* the effects of one commit draw at most one still frame.
C15_OnePendingNoFrameWithoutLock ==
    gfx.pc = "mounted" =>
       /\ Cardinality(gfx.pending) <= 1
       /\ gfx.lastFrame.kind = "loop" => gfx.lastFrame.domLocked
       /\ gfx.stills <= 1

\* C15, the failing run: the lock was lost, and before the render that
\* follows pointerlockchange the pending callback ran, drew a frame and
\* requested the next
C15_LoopFrameAfterLockLoss ==
    /\ gfx.pc = "mounted"
    /\ gfx.lastFrame.kind = "loop"
    /\ ~gfx.lastFrame.domLocked
    /\ ~pointerLocked
    /\ gfx.pending # {}

\* C18 as stated: during continuous rendering a frame that occurs 500 ms or
\* more after the previous report (or after rendering began) reports, so no
\* frame of the loop ends with 500 ms or more since the last report; and the
\* sample reported is round(frames counted * 1000 / ms since the last
\* report).
C18_ReportEveryHalfSecond ==
    gfx.pc = "mounted" =>
       /\ gfx.lastFrame.kind = "loop" => gfx.lastFrame.sinceReport < 500
       /\ gfx.lastReport.at >= 0 =>
             gfx.lastReport.fps =
                Round(gfx.lastReport.frames * 1000, gfx.lastReport.elapsed)

\* C18, the failing run: frames kept coming under pointer lock for 500 ms or
\* more and none has reported: a frame moved the camera, and the render that
\* followed ran the loop effect again, which restarted the count
C18_HalfSecondWithoutReport ==
    /\ gfx.pc = "mounted"
    /\ gfx.lastFrame.kind = "loop"
    /\ gfx.lastFrame.domLocked
    /\ gfx.lastFrame.sinceReport >= 500
    /\ gfx.lastReport.at = -1
    /\ gfx.toggles = 0
    /\ cameraPos # RenderPose.pos

\* C19 as stated: every frame is drawn with a program whose MAX_STEPS,
\* MAX_BOUNCES and SHADOW_STEPS are those of the quality level in effect,
\* into a framebuffer of floor(display size * that level's scale); and the
\* program is built once at the start and once per change of level.
C19_ProgramOfLevelInEffect ==
    /\ RenderFrameDrawn =>
          LET built == getQualityConfig(gfx.lastFrame.program.quality)
              level == getQualityConfig(gfx.lastFrame.level)
          IN /\ built.maxSteps = level.maxSteps
             /\ built.maxBounces = level.maxBounces
             /\ built.shadowSteps = level.shadowSteps
             /\ gfx.lastFrame.width = (DisplayWidth * level.scale) \div 100
             /\ gfx.lastFrame.height = (DisplayHeight * level.scale) \div 100
    /\ gfx.pc = "mounted" => gfx.builds = 1 + gfx.toggles

\* C19, the failing run: a frame drawn at one level with the program built
\* for another, the rebuild having failed
C19_FrameWithAnotherLevelsProgram ==
    /\ RenderFrameDrawn
    /\ gfx.lastFrame.program.quality # gfx.lastFrame.level
    /\ gfx.lastFrame.width =
          (DisplayWidth * getQualityConfig(gfx.lastFrame.level).scale) \div 100

=============================================================================
